---- MODULE Spec2Model ----
(***************************************************************************)
(* SLIM (slim-protocol-core): the encoder (src/src/types.ts, encoder       *)
(* section) and the cursor-based decoder (src/src/decoder.ts) as TLA+      *)
(* operators, and the state machine "take a value, encode it, decode the   *)
(* text" that the round-trip properties are about.                         *)
(*                                                                         *)
(* Text is a sequence of one-character strings.  A value is a tagged       *)
(* record: Null, Undef, Bool(b), Num(n) for a finite integer n, NaN, Inf,  *)
(* NegInf, Str(s), List(xs) and Obj(es) where es is the sequence of        *)
(* [key, val] entries in the record's own key order.                       *)
(*                                                                         *)
(* The schema utilities (src/src/schema.ts) and the incremental encoder    *)
(* and decoder (src/src/stream.ts) follow the decoder, each with the       *)
(* actions that call them.                                                 *)
(***************************************************************************)
EXTENDS Integers, Sequences, FiniteSets, TLC

VARIABLES pc, data, opts, slim, out,
          schema,      \* a schema text: inferSchema's result, or the argument
                       \* of parseSchema and validateSchema
          res,         \* what parseSchema or validateSchema returned
          dopts,       \* the options handed to decode
          threw,       \* decode raised an error
          slim2,       \* the text of encoding again what decode returned
          encBuffer,   \* createEncoder: buffer
          written,     \* the arguments of the write calls so far, in order,
                       \* or the texts a generator has yielded so far
          decBuffer,   \* createDecoder: buffer
          feed,        \* the part of the text not yet written to the decoder
          ret,         \* the last call on the encoder or decoder and its result
          gen          \* a generator that encodeChunked returned: its
                       \* chunkSize, its loop index i and its state
                       \* (suspended, executing or completed)

schemaVars == <<schema, res>>
decodeVars == <<dopts, threw, slim2>>
streamVars == <<encBuffer, written, decBuffer, feed, ret, gen>>
vars == <<pc, data, opts, slim, out, schema, res, dopts, threw, slim2,
          encBuffer, written, decBuffer, feed, ret, gen>>

(***************************************************************************)
(* Bounds of the model.                                                    *)
(***************************************************************************)
MaxInt == 15
MaxTextLen == 3
MaxRawLen == 4
MaxRows == 2
MaxCellLen == 1
MaxKeyLen == 2
MaxFields == 2
MaxElems == 2
MaxElemLen == 1
MaxMatrixRows == 2
MaxRowLen == 2
MaxListLen == 3
MaxThreshold == 3

(***************************************************************************)
(* Values.                                                                 *)
(***************************************************************************)
Null == [k |-> "null"]
Undef == [k |-> "undef"]
NaN == [k |-> "nan"]
Inf == [k |-> "inf"]
NegInf == [k |-> "ninf"]
Bool(b) == [k |-> "bool", v |-> b]
Num(n) == [k |-> "num", v |-> n]
Str(s) == [k |-> "str", v |-> s]
List(xs) == [k |-> "list", v |-> xs]
Obj(es) == [k |-> "obj", v |-> es]

IsNullish(x) == x.k \in {"null", "undef"}
IsBoolean(x) == x.k = "bool"
IsNumber(x) == x.k \in {"num", "nan", "inf", "ninf"}
IsString(x) == x.k = "str"
IsArray(x) == x.k = "list"
IsPlainObject(x) == x.k = "obj"

(***************************************************************************)
(* Text helpers.                                                           *)
(***************************************************************************)
RECURSIVE Join(_, _)
Join(parts, sep) ==
  IF Len(parts) = 0 THEN <<>>
  ELSE IF Len(parts) = 1 THEN parts[1]
  ELSE parts[1] \o sep \o Join(Tail(parts), sep)

Contains(s, cs) == \E i \in 1..Len(s) : s[i] \in cs

RECURSIVE ReplaceChar(_, _, _)
ReplaceChar(s, c, r) ==
  IF Len(s) = 0 THEN <<>>
  ELSE (IF s[1] = c THEN r ELSE <<s[1]>>) \o ReplaceChar(Tail(s), c, r)

StartsWith(s, c) == Len(s) > 0 /\ s[1] = c

DigitChars == <<"0", "1", "2", "3", "4", "5", "6", "7", "8", "9">>
Digits == {DigitChars[i] : i \in 1..10}
DigitVal(c) == CHOOSE d \in 0..9 : DigitChars[d + 1] = c

RECURSIVE NatToStr(_)
NatToStr(n) ==
  IF n < 10 THEN <<DigitChars[n + 1]>>
  ELSE NatToStr(n \div 10) \o <<DigitChars[(n % 10) + 1]>>

\* String(num) / num.toString() of a Number
NumberToString(x) ==
  CASE x.k = "nan" -> <<"N", "a", "N">>
    [] x.k = "inf" -> <<"I", "n", "f", "i", "n", "i", "t", "y">>
    [] x.k = "ninf" -> <<"-", "I", "n", "f", "i", "n", "i", "t", "y">>
    [] OTHER -> IF x.v < 0 THEN <<"-">> \o NatToStr(0 - x.v) ELSE NatToStr(x.v)

\* String(v) as JavaScript computes it; Array.prototype.join renders
\* null and undefined elements as the empty text.
RECURSIVE JsString(_)
JsString(x) ==
  CASE x.k = "null" -> <<"n", "u", "l", "l">>
    [] x.k = "undef" -> <<"u", "n", "d", "e", "f", "i", "n", "e", "d">>
    [] x.k = "bool" -> IF x.v THEN <<"t", "r", "u", "e">>
                       ELSE <<"f", "a", "l", "s", "e">>
    [] x.k = "str" -> x.v
    [] x.k = "list" ->
         Join([i \in 1..Len(x.v) |->
                 IF IsNullish(x.v[i]) THEN <<>> ELSE JsString(x.v[i])], <<",">>)
    [] x.k = "obj" -> <<"[", "o", "b", "j", "e", "c", "t", " ",
                         "O", "b", "j", "e", "c", "t", "]">>
    [] OTHER -> NumberToString(x)

ArrayJoin(xs, sep) ==
  Join([i \in 1..Len(xs) |->
          IF IsNullish(xs[i]) THEN <<>> ELSE JsString(xs[i])], sep)

WhiteSpace == {" ", "\t", "\n", "\r"}

\* str !== str.trim()
TrimChanges(s) == Len(s) > 0 /\ (s[1] \in WhiteSpace \/ s[Len(s)] \in WhiteSpace)

(***************************************************************************)
(* Records: entries in key order.  JavaScript keeps canonical array-index  *)
(* keys ("0", "7", "12") first, in ascending numeric order, and every      *)
(* other key in insertion order.                                           *)
(***************************************************************************)
ObjKeys(o) == [i \in 1..Len(o.v) |-> o.v[i].key]
HasKey(o, key) == \E i \in 1..Len(o.v) : o.v[i].key = key
ObjGet(o, key) ==
  IF HasKey(o, key)
  THEN o.v[CHOOSE i \in 1..Len(o.v) : o.v[i].key = key].val
  ELSE Undef

RECURSIVE StrToNat(_)
StrToNat(s) ==
  IF Len(s) = 0 THEN 0
  ELSE 10 * StrToNat(SubSeq(s, 1, Len(s) - 1)) + DigitVal(s[Len(s)])

IsIndexKey(key) ==
  /\ Len(key) > 0
  /\ Len(key) < 9
  /\ \A i \in 1..Len(key) : key[i] \in Digits
  /\ (Len(key) > 1 => key[1] # "0")

\* obj[key] = val
ObjSet(o, key, val) ==
  IF HasKey(o, key)
  THEN Obj([i \in 1..Len(o.v) |->
              IF o.v[i].key = key THEN [key |-> key, val |-> val] ELSE o.v[i]])
  ELSE IF IsIndexKey(key)
  THEN LET before == {i \in 1..Len(o.v) :
                        IsIndexKey(o.v[i].key) /\ StrToNat(o.v[i].key) < StrToNat(key)}
           n == Cardinality(before)
       IN Obj(SubSeq(o.v, 1, n) \o <<[key |-> key, val |-> val]>>
              \o SubSeq(o.v, n + 1, Len(o.v)))
  ELSE Obj(Append(o.v, [key |-> key, val |-> val]))

(***************************************************************************)
(* Encoder (src/src/types.ts, encoder section).                            *)
(***************************************************************************)
SLIM_NULL == <<"!", "n", "u", "l", "l">>
SLIM_UNDEFINED == <<"!", "u", "n", "d", "e", "f">>
SLIM_DEEP == <<"!", "D", "E", "E", "P">>
SLIM_TRUE == <<"?", "T">>
SLIM_FALSE == <<"?", "F">>
SLIM_NAN == <<"#", "N", "a", "N">>
SLIM_INF == <<"#", "I", "n", "f">>
SLIM_NEG_INF == <<"#", "-", "I", "n", "f">>

STRUCTURAL_CHARS == {",", ";", "\n", "|", "{", "}", "[", "]", "\"", "#", "?", "!", "*", "@"}
KEY_SPECIAL_CHARS == {",", ":", "{", "}", "[", "]"}

DefaultMaxDepth == 15
DefaultTableThreshold == 1
DEFAULT_OPTIONS == [maxDepth |-> DefaultMaxDepth, tableThreshold |-> DefaultTableThreshold]

encodeNumber(num) ==
  CASE num.k = "nan" -> SLIM_NAN
    [] num.k = "inf" -> SLIM_INF
    [] num.k = "ninf" -> SLIM_NEG_INF
    [] OTHER -> <<"#">> \o NumberToString(num)

\* str.replace(/"/g, '""').replace(/\n/g, '\\n')
EscapeQuoted(s) == ReplaceChar(ReplaceChar(s, "\"", <<"\"", "\"">>), "\n", <<"\\", "n">>)

\* encodeString without the leading/trailing whitespace test
encodeString_NoTrimTest(str) ==
  IF str = <<>> THEN <<"\"", "\"">>
  ELSE IF Contains(str, STRUCTURAL_CHARS)
  THEN <<"\"">> \o EscapeQuoted(str) \o <<"\"">>
  ELSE str

encodeString(str) ==
  IF str = <<>> THEN <<"\"", "\"">>
  ELSE IF Contains(str, STRUCTURAL_CHARS) \/ TrimChanges(str)
  THEN <<"\"">> \o EscapeQuoted(str) \o <<"\"">>
  ELSE str

isMatrix(arr) ==
  \A i \in 1..Len(arr) :
    IsArray(arr[i]) /\ \A j \in 1..Len(arr[i].v) : IsNumber(arr[i].v[j])

encodeMatrix(matrix) ==
  <<"*", "[">>
  \o Join([i \in 1..Len(matrix) |-> ArrayJoin(matrix[i].v, <<",">>)], <<";">>)
  \o <<"]">>

\* every element a string without , ; [ ]
AllSimpleStrings(arr) ==
  \A i \in 1..Len(arr) :
    IsString(arr[i]) /\ ~Contains(arr[i].v, {",", ";", "[", "]"})

\* every element typeof 'object', not null, not an array
AllPlainObjects(arr) == \A i \in 1..Len(arr) : IsPlainObject(arr[i])

encodeInlineArray(arr) ==
  IF Len(arr) = 0 THEN <<"[", "]">>
  ELSE IF \A i \in 1..Len(arr) : IsNumber(arr[i])
  THEN ArrayJoin(arr, <<"+">>)
  ELSE Join([i \in 1..Len(arr) |->
               LET s == JsString(arr[i])
               IN IF Contains(s, {"+", ","})
                  THEN <<"\"">> \o ReplaceChar(s, "\"", <<"\"", "\"">>) \o <<"\"">>
                  ELSE s], <<"+">>)

\* [...new Set(rows.flatMap((obj) => Object.keys(obj)))]
RECURSIVE Dedup(_)
Dedup(s) ==
  IF Len(s) = 0 THEN <<>>
  ELSE LET front == Dedup(SubSeq(s, 1, Len(s) - 1))
           last == s[Len(s)]
       IN IF \E i \in 1..Len(front) : front[i] = last THEN front
          ELSE Append(front, last)

RECURSIVE FlatKeys(_)
FlatKeys(rows) ==
  IF Len(rows) = 0 THEN <<>>
  ELSE ObjKeys(rows[1]) \o FlatKeys(Tail(rows))

\* the keys without the Set: a key stands once per record that has it
TableKeys_NoDedup(rows) == FlatKeys(rows)

TableKeys(rows) == Dedup(FlatKeys(rows))

\* the column type text of one key (types.ts 416-441)
ColType(rows, key) ==
  LET present == {i \in 1..Len(rows) : ~IsNullish(ObjGet(rows[i], key))}
      base == IF present = {} THEN <<"!">>
              ELSE IF \A i \in present : IsBoolean(ObjGet(rows[i], key)) THEN <<"?">>
              ELSE IF \A i \in present : IsNumber(ObjGet(rows[i], key)) THEN <<"#">>
              ELSE IF \A i \in present : IsArray(ObjGet(rows[i], key)) THEN <<"@">>
              ELSE IF \A i \in present : IsPlainObject(ObjGet(rows[i], key)) THEN <<"~">>
              ELSE <<"$">>
  IN IF \E i \in 1..Len(rows) : IsNullish(ObjGet(rows[i], key))
     THEN base \o <<"!">>
     ELSE base

TableSchema(rows) ==
  LET keys == TableKeys(rows)
  IN Join([i \in 1..Len(keys) |-> keys[i] \o ColType(rows, keys[i])], <<",">>)

RECURSIVE encodeValue(_, _, _)
RECURSIVE encodeArray(_, _, _)
RECURSIVE encodeObject(_, _, _)
RECURSIVE encodeTable(_, _, _)

\* one cell of a data row (types.ts 449-473)
TableCell(v, type, depth, o) ==
  IF IsNullish(v) THEN <<>>
  ELSE IF StartsWith(type, "?") THEN (IF v.v THEN <<"T">> ELSE <<"F">>)
  ELSE IF StartsWith(type, "#") THEN JsString(v)
  ELSE IF StartsWith(type, "@") THEN encodeInlineArray(v.v)
  ELSE IF StartsWith(type, "~") THEN encodeValue(v, depth + 1, o)
  ELSE IF IsString(v) /\ v.v = <<>> THEN <<"\"", "\"">>
  ELSE IF IsString(v) /\ Contains(v.v, {",", "\n", "|", "\""})
  THEN <<"\"">> \o EscapeQuoted(v.v) \o <<"\"">>
  ELSE JsString(v)

encodeTable(rows, depth, o) ==
  LET keys == TableKeys(rows)
      dataRows == [r \in 1..Len(rows) |->
                     Join([c \in 1..Len(keys) |->
                             TableCell(ObjGet(rows[r], keys[c]),
                                       ColType(rows, keys[c]), depth, o)], <<",">>)]
  IN <<"|">> \o NatToStr(Len(rows)) \o <<"|">> \o TableSchema(rows) \o <<"|", "\n">>
     \o Join(dataRows, <<"\n">>)

\* encodeArray taking the table form only above tableThreshold
encodeArray_AboveThreshold(arr, depth, o) ==
  IF Len(arr) = 0 THEN <<"@", "[", "]">>
  ELSE IF isMatrix(arr) THEN encodeMatrix(arr)
  ELSE IF \A i \in 1..Len(arr) : IsNumber(arr[i])
  THEN <<"@", "#", "[">> \o ArrayJoin(arr, <<",">>) \o <<"]">>
  ELSE IF AllSimpleStrings(arr)
  THEN <<"@", "[">> \o ArrayJoin(arr, <<",">>) \o <<"]">>
  ELSE IF Len(arr) > o.tableThreshold /\ AllPlainObjects(arr)
  THEN encodeTable(arr, depth, o)
  ELSE <<"@", "[">>
       \o Join([i \in 1..Len(arr) |-> encodeValue(arr[i], depth + 1, o)], <<";">>)
       \o <<"]">>

encodeArray(arr, depth, o) ==
  IF Len(arr) = 0 THEN <<"@", "[", "]">>
  ELSE IF isMatrix(arr) THEN encodeMatrix(arr)
  ELSE IF \A i \in 1..Len(arr) : IsNumber(arr[i])
  THEN <<"@", "#", "[">> \o ArrayJoin(arr, <<",">>) \o <<"]">>
  ELSE IF AllSimpleStrings(arr)
  THEN <<"@", "[">> \o ArrayJoin(arr, <<",">>) \o <<"]">>
  ELSE IF Len(arr) >= o.tableThreshold /\ AllPlainObjects(arr)
  THEN encodeTable(arr, depth, o)
  ELSE <<"@", "[">>
       \o Join([i \in 1..Len(arr) |-> encodeValue(arr[i], depth + 1, o)], <<";">>)
       \o <<"]">>

SafeKey(key) ==
  IF Contains(key, KEY_SPECIAL_CHARS)
  THEN <<"\"">> \o ReplaceChar(key, "\"", <<"\"", "\"">>) \o <<"\"">>
  ELSE key

encodeObject(obj, depth, o) ==
  IF Len(obj.v) = 0 THEN <<"{", "}">>
  ELSE <<"{">>
       \o Join([i \in 1..Len(obj.v) |->
                  LET value == obj.v[i].val
                  IN SafeKey(obj.v[i].key) \o <<":">>
                     \o (IF IsArray(value) /\ Len(value.v) >= o.tableThreshold
                            /\ AllPlainObjects(value.v)
                         THEN encodeTable(value.v, depth + 1, o)
                         ELSE encodeValue(value, depth + 1, o))], <<",">>)
       \o <<"}">>

encodeValue(x, depth, o) ==
  IF depth > o.maxDepth THEN SLIM_DEEP
  ELSE CASE x.k = "null" -> SLIM_NULL
         [] x.k = "undef" -> SLIM_UNDEFINED
         [] x.k = "bool" -> (IF x.v THEN SLIM_TRUE ELSE SLIM_FALSE)
         [] x.k = "str" -> encodeString(x.v)
         [] x.k = "list" -> encodeArray(x.v, depth, o)
         [] x.k = "obj" -> encodeObject(x, depth, o)
         [] OTHER -> encodeNumber(x)

encode(x, o) == encodeValue(x, 0, o)

(***************************************************************************)
(* Decoder (src/src/decoder.ts).  The cursor pos is the number of          *)
(* characters consumed, as in the source; a parse returns the value and    *)
(* the cursor after it.  A loop of the source whose iteration returns to   *)
(* the loop head with the cursor where it was repeats that iteration for   *)
(* ever (its exit test reads only the cursor); the operators return that   *)
(* outcome as HANG instead of unfolding it.                                *)
(***************************************************************************)
R(val, p) == [v |-> val, p |-> p, h |-> FALSE]
HANG == [v |-> Undef, p |-> 0, h |-> TRUE]

peek(str, pos) == IF pos < Len(str) THEN str[pos + 1] ELSE ""
isEnd(str, pos) == pos >= Len(str)
match(str, pos, lit) ==
  pos + Len(lit) <= Len(str) /\ SubSeq(str, pos + 1, pos + Len(lit)) = lit

RECURSIVE skipWs(_, _)
skipWs(str, pos) ==
  IF pos < Len(str) /\ peek(str, pos) = " " THEN skipWs(str, pos + 1) ELSE pos

\* the cursor after the maximal run of characters outside stop
RECURSIVE RunUntil(_, _, _)
RunUntil(str, pos, stop) ==
  IF ~isEnd(str, pos) /\ peek(str, pos) \notin stop
  THEN RunUntil(str, pos + 1, stop) ELSE pos

\* the cursor after the maximal run of characters inside cls
RECURSIVE RunWhile(_, _, _)
RunWhile(str, pos, cls) ==
  IF ~isEnd(str, pos) /\ peek(str, pos) \in cls
  THEN RunWhile(str, pos + 1, cls) ELSE pos

Slice(str, from, to) == SubSeq(str, from + 1, to)

\* /[0-9.eE+\-]/
NUMERIC_RUN == Digits \cup {".", "e", "E", "+", "-"}
\* /[,;\n|{}\[\]]/
UNQUOTED_STOP == {",", ";", "\n", "|", "{", "}", "[", "]"}
\* /[,\n}]/
CELL_STOP == {",", "\n", "}"}
\* /[},\]]/
ROW_STOP == {"}", ",", "]"}
\* /[#?@~$!]/
TYPE_MARKERS == {"#", "?", "@", "~", "$", "!"}

\* parseFloat on an integer literal: optional sign, then the longest run of
\* digits; no digit gives NaN.  Num holds integers, so a fraction or an
\* exponent after the digits is not read (the alphabets of the model have
\* no '.', 'e' or 'E' in numeric position).
parseFloat(s) ==
  LET signed == Len(s) > 0 /\ s[1] \in {"+", "-"}
      from == IF signed THEN 1 ELSE 0
      to == RunWhile(s, from, Digits)
      n == StrToNat(Slice(s, from, to))
  IN IF to = from THEN NaN
     ELSE IF signed /\ s[1] = "-" THEN Num(0 - n) ELSE Num(n)

\* parseNull reading !undef as null
parseNull_UndefAsNull(str, pos) ==
  IF match(str, pos, <<"n", "u", "l", "l">>) THEN R(Null, pos + 4)
  ELSE IF match(str, pos, <<"u", "n", "d", "e", "f">>) THEN R(Null, pos + 5)
  ELSE IF match(str, pos, <<"D", "E", "E", "P">>) THEN R(Null, pos + 4)
  ELSE R(Null, pos)

parseNull(str, pos) ==
  IF match(str, pos, <<"n", "u", "l", "l">>) THEN R(Null, pos + 4)
  ELSE IF match(str, pos, <<"u", "n", "d", "e", "f">>) THEN R(Undef, pos + 5)
  ELSE IF match(str, pos, <<"D", "E", "E", "P">>) THEN R(Null, pos + 4)
  ELSE R(Null, pos)

parseNumber(str, pos) ==
  IF match(str, pos, <<"N", "a", "N">>) THEN R(NaN, pos + 3)
  ELSE IF match(str, pos, <<"-", "I", "n", "f">>) THEN R(NegInf, pos + 4)
  ELSE IF match(str, pos, <<"I", "n", "f">>) THEN R(Inf, pos + 3)
  ELSE LET to == RunWhile(str, pos, NUMERIC_RUN)
       IN R(parseFloat(Slice(str, pos, to)), to)

\* the loop of parseQuotedString, entered after the opening quote
RECURSIVE QuotedLoop(_, _, _)
QuotedLoop(str, pos, val) ==
  IF isEnd(str, pos) THEN R(Str(val), pos)
  ELSE IF peek(str, pos) = "\""
  THEN IF peek(str, pos + 1) = "\""
       THEN QuotedLoop(str, pos + 2, Append(val, "\""))
       ELSE R(Str(val), pos + 1)
  ELSE IF match(str, pos, <<"\\", "n">>)
  THEN QuotedLoop(str, pos + 2, Append(val, "\n"))
  ELSE QuotedLoop(str, pos + 1, Append(val, peek(str, pos)))

parseQuotedString(str, pos) == QuotedLoop(str, pos + 1, <<>>)

parseUnquoted(str, pos) ==
  LET to == RunUntil(str, pos, UNQUOTED_STOP)
  IN R(Str(Slice(str, pos, to)), to)

\* String.prototype.split on a one-character separator
RECURSIVE Split(_, _)
Split(s, sep) ==
  IF \E i \in 1..Len(s) : s[i] = sep
  THEN LET i == CHOOSE j \in 1..Len(s) :
                  s[j] = sep /\ \A m \in 1..(j - 1) : s[m] # sep
       IN <<SubSeq(s, 1, i - 1)>> \o Split(SubSeq(s, i + 1, Len(s)), sep)
  ELSE <<s>>

\* col.match(/^(.+?)([#?@~$!]*)$/): the shortest non-empty name, free of
\* line terminators, whose remainder is made of marker characters only
ColumnDef(col) ==
  LET ok == {j \in 1..Len(col) :
               /\ \A m \in 1..j : col[m] \notin {"\n", "\r"}
               /\ \A m \in (j + 1)..Len(col) : col[m] \in TYPE_MARKERS}
  IN IF ok = {} THEN [name |-> col, type |-> <<>>]
     ELSE LET j == CHOOSE x \in ok : \A y \in ok : x <= y
          IN [name |-> SubSeq(col, 1, j), type |-> SubSeq(col, j + 1, Len(col))]

\* /^-?\d+\.?\d*$/
IsNumericPiece(x) ==
  LET from == IF StartsWith(x, "-") THEN 1 ELSE 0
      d1 == RunWhile(x, from, Digits)
      d2 == IF peek(x, d1) = "." THEN d1 + 1 ELSE d1
  IN d1 > from /\ RunWhile(x, d2, Digits) = Len(x)

\* the value of an array cell (decoder.ts 365-375)
ArrayCell(arrStr) ==
  IF arrStr = <<"[", "]">> THEN List(<<>>)
  ELSE LET elements == SelectSeq(Split(arrStr, "+"), LAMBDA x : x # <<>>)
       IN IF \A i \in 1..Len(elements) : IsNumericPiece(elements[i])
          THEN List([i \in 1..Len(elements) |-> parseFloat(elements[i])])
          ELSE List([i \in 1..Len(elements) |-> Str(elements[i])])

RECURSIVE parseValue(_, _)
RECURSIVE ArrayLoop(_, _, _, _)
RECURSIVE ObjectLoop(_, _, _)
RECURSIVE CellLoop(_, _, _, _, _)
RECURSIVE RowLoop(_, _, _, _)

\* the while loop of parseArray (decoder.ts 208-224) and its exit
ArrayLoop(str, pos, items, isNumeric) ==
  IF isEnd(str, pos) \/ peek(str, pos) = "]"
  THEN R(List(items), IF peek(str, pos) = "]" THEN pos + 1 ELSE pos)
  ELSE LET to == RunWhile(str, pos, NUMERIC_RUN)
           item == IF isNumeric
                   THEN R(parseFloat(Slice(str, pos, to)), to)
                   ELSE parseValue(str, pos)
           pushed == IF isNumeric /\ to = pos THEN items ELSE Append(items, item.v)
           next == IF peek(str, item.p) \in {",", ";"} THEN item.p + 1 ELSE item.p
       IN IF item.h \/ next = pos THEN HANG
          ELSE ArrayLoop(str, next, pushed, isNumeric)

parseArray(str, pos) ==
  LET isNumeric == peek(str, pos) = "#"
      p1 == IF isNumeric THEN pos + 1 ELSE pos
  IN IF peek(str, p1) # "[" THEN R(List(<<>>), p1)
     ELSE IF peek(str, p1 + 1) = "]" THEN R(List(<<>>), p1 + 2)
     ELSE ArrayLoop(str, p1 + 1, <<>>, isNumeric)

\* the while loop of parseMatrix (decoder.ts 239-255) and its exit
RECURSIVE MatrixLoop(_, _, _, _)
MatrixLoop(str, pos, rows, currentRow) ==
  LET ch == peek(str, pos)
      finish == R(List(IF Len(currentRow) > 0
                       THEN Append(rows, List(currentRow)) ELSE rows),
                  IF ch = "]" THEN pos + 1 ELSE pos)
  IN IF isEnd(str, pos) \/ ch = "]" THEN finish
     ELSE IF ch = ";"
     THEN MatrixLoop(str, pos + 1,
                     IF Len(currentRow) > 0 THEN Append(rows, List(currentRow)) ELSE rows,
                     <<>>)
     ELSE IF ch = ","
     THEN MatrixLoop(str, pos + 1, rows, currentRow)
     ELSE IF ch \in Digits \cup {".", "-"}
     THEN LET to == RunWhile(str, pos, NUMERIC_RUN)
          IN MatrixLoop(str, to, rows, Append(currentRow, parseFloat(Slice(str, pos, to))))
     ELSE finish

parseMatrix(str, pos) ==
  IF peek(str, pos) # "[" THEN R(List(<<>>), pos)
  ELSE MatrixLoop(str, pos + 1, <<>>, <<>>)

\* the while loop of parseObject (decoder.ts 269-284) and its exit
ObjectLoop(str, pos, obj) ==
  IF isEnd(str, pos) \/ peek(str, pos) = "}"
  THEN R(obj, IF peek(str, pos) = "}" THEN pos + 1 ELSE pos)
  ELSE LET p1 == skipWs(str, pos)
           q == IF peek(str, p1) = "\"" THEN parseQuotedString(str, p1)
                ELSE R(Str(<<>>), p1)
           p2 == IF q.v.v = <<>> THEN RunUntil(str, q.p, {":", ",", "{", "}"}) ELSE q.p
           key == IF q.v.v = <<>> THEN Slice(str, q.p, p2) ELSE q.v.v
           p3 == IF peek(str, p2) = ":" THEN p2 + 1 ELSE p2
           val == parseValue(str, p3)
           next == IF peek(str, val.p) = "," THEN val.p + 1 ELSE val.p
       IN IF val.h \/ next = pos THEN HANG
          ELSE ObjectLoop(str, next, ObjSet(obj, key, val.v))

parseObject(str, pos) ==
  ObjectLoop(str, IF peek(str, pos) = "{" THEN pos + 1 ELSE pos, Obj(<<>>))

\* one cell of a data row (decoder.ts 328-399): columns i..Len(columns)
CellLoop(str, pos, columns, i, obj) ==
  IF i > Len(columns) THEN R(obj, pos)
  ELSE LET p1 == IF i > 1 /\ peek(str, pos) = "," THEN pos + 1 ELSE pos
           col == columns[i]
           ch == peek(str, p1)
           nullable == Contains(col.type, {"!"})
           numTo == RunWhile(str, p1, NUMERIC_RUN)
           cellTo == RunUntil(str, p1, CELL_STOP)
           cell == IF ch \in {",", "\n", "}"} \/ isEnd(str, p1)
                   THEN R(IF nullable THEN Null ELSE Undef, p1)
                   ELSE IF ch = "\"" THEN parseQuotedString(str, p1)
                   ELSE IF StartsWith(col.type, "#")
                   THEN R(IF numTo > p1 THEN parseFloat(Slice(str, p1, numTo)) ELSE Null,
                          numTo)
                   ELSE IF StartsWith(col.type, "?") THEN R(Bool(ch = "T"), p1 + 1)
                   ELSE IF StartsWith(col.type, "@")
                   THEN R(ArrayCell(Slice(str, p1, cellTo)), cellTo)
                   ELSE IF StartsWith(col.type, "~") THEN parseValue(str, p1)
                   ELSE R(Str(Slice(str, p1, cellTo)), cellTo)
           val == cell.v
           stored == IF ~IsNullish(val) /\ ~(IsString(val) /\ val.v = <<>>)
                     THEN ObjSet(obj, col.name, val)
                     ELSE IF nullable /\ val.k = "null"
                     THEN ObjSet(obj, col.name, Null)
                     ELSE obj
       IN IF cell.h THEN HANG
          ELSE CellLoop(str, cell.p, columns, i + 1, stored)

\* the while loop over the data rows of parseTable (decoder.ts 322-409)
RowLoop(str, pos, columns, rows) ==
  IF isEnd(str, pos) THEN R(List(rows), pos)
  ELSE LET p1 == IF peek(str, pos) = "\n" THEN pos + 1 ELSE pos
       IN IF isEnd(str, p1) \/ peek(str, p1) \in ROW_STOP THEN R(List(rows), p1)
          ELSE LET row == CellLoop(str, p1, columns, 1, Obj(<<>>))
               IN IF row.h THEN HANG
                  ELSE IF peek(str, row.p) = "\n"
                  THEN RowLoop(str, row.p + 1, columns, Append(rows, row.v))
                  ELSE IF peek(str, row.p) \notin ROW_STOP /\ ~isEnd(str, row.p)
                  THEN R(List(Append(rows, row.v)), row.p)
                  ELSE RowLoop(str, row.p, columns, Append(rows, row.v))

\* parseTable: `while (this.peek() !== '|')` never ends when no '|' is left
parseTable(str, pos) ==
  LET p1 == IF peek(str, pos) = "|" THEN pos + 1 ELSE pos
      p2 == RunUntil(str, p1, {"|"})
      p3 == RunUntil(str, p2 + 1, {"|"})
      schemaStr == Slice(str, p2 + 1, p3)
      parts == Split(schemaStr, ",")
      columns == [i \in 1..Len(parts) |-> ColumnDef(parts[i])]
  IN IF isEnd(str, p2) \/ isEnd(str, p3) THEN HANG
     ELSE RowLoop(str, p3 + 1, columns, <<>>)

parseValue(str, pos) ==
  LET p == skipWs(str, pos)
      ch == peek(str, p)
  IN IF isEnd(str, p) THEN R(Undef, p)
     ELSE CASE ch = "!" -> parseNull(str, p + 1)
            [] ch = "?" -> R(Bool(peek(str, p + 1) = "T"), p + 2)
            [] ch = "#" -> parseNumber(str, p + 1)
            [] ch = "@" -> parseArray(str, p + 1)
            [] ch = "*" -> parseMatrix(str, p + 1)
            [] ch = "{" -> parseObject(str, p)
            [] ch = "|" -> parseTable(str, p)
            [] ch = "\"" -> parseQuotedString(str, p)
            [] OTHER -> parseUnquoted(str, p)

\* decode: the value, or hang when the parser never returns
decode(str) ==
  LET r == parseValue(str, 0)
  IN [hang |-> r.h, val |-> r.v]

\* decode(slim, options): the options are merged over the defaults and
\* handed to the parser, whose constructor drops them
DECODE_DEFAULTS == [strict |-> FALSE]
decodeWith(str, options) == decode(str)

(***************************************************************************)
(* The state machine: a value and options are given (pc = "input"),        *)
(* encode turns the value into text (pc = "encoded"), decode parses the    *)
(* text (pc = "decoded").  out.hang tells that decode never returned.      *)
(***************************************************************************)
NoText == <<>>
NoOut == [hang |-> FALSE, val |-> Undef]
NoRes == [op |-> "none"]
NoRet == [call |-> "none"]
NoGen == [chunkSize |-> 0, i |-> 0, state |-> "none"]

\* nothing asked of the schema utilities, the decode options left at their
\* defaults, no encoder or decoder of stream.ts in use
SchemaIdle == schema = NoText /\ res = NoRes
DecodeIdle == dopts = DECODE_DEFAULTS /\ threw = FALSE /\ slim2 = NoText
StreamIdle ==
  /\ encBuffer = <<>>
  /\ written = <<>>
  /\ decBuffer = NoText
  /\ feed = NoText
  /\ ret = NoRet
  /\ gen = NoGen

Texts(alphabet, n) == UNION {[1..m -> alphabet] : m \in 0..n}

Encode ==
  /\ pc = "input"
  /\ slim' = encode(data, opts)
  /\ pc' = "encoded"
  /\ UNCHANGED <<data, opts, out, schemaVars, decodeVars, streamVars>>

Decode ==
  /\ pc = "encoded"
  /\ out' = decodeWith(slim, dopts)
  /\ threw' = FALSE    \* no statement of the decoder raises an error
  /\ pc' = "decoded"
  /\ UNCHANGED <<data, opts, slim, dopts, slim2, schemaVars, streamVars>>

Next == Encode \/ Decode

InitWith(values, options) ==
  /\ pc = "input"
  /\ data \in values
  /\ opts \in options
  /\ slim = NoText
  /\ out = NoOut
  /\ SchemaIdle /\ DecodeIdle /\ StreamIdle

\* Text values: every structural character, whitespace, the backslash
TextAlphabet ==
  {",", ";", "\n", "|", "{", "}", "[", "]", "\"", "#", "?", "!", "*", "@",
   " ", "\t", "\\", "n", "a"}
TextValues == {Str(s) : s \in Texts(TextAlphabet, MaxTextLen)}
InitText == InitWith(TextValues, {DEFAULT_OPTIONS})
SpecText == InitText /\ [][Next]_vars

\* utils.deepEqual: records compare by key count and by the value found
\* under each key of the first, whatever the key order
RECURSIVE deepEqual(_, _)
deepEqual(a, b) ==
  IF IsNullish(a) THEN a.k = b.k
  ELSE IF a.k \notin {"list", "obj"}
  THEN a.k = b.k /\ (a.k \in {"nan", "inf", "ninf"} \/ a.v = b.v)
  ELSE IF IsArray(a)
  THEN /\ IsArray(b)
       /\ Len(a.v) = Len(b.v)
       /\ \A i \in 1..Len(a.v) : deepEqual(a.v[i], b.v[i])
  ELSE /\ IsPlainObject(b)
       /\ Len(a.v) = Len(b.v)
       /\ \A i \in 1..Len(a.v) : deepEqual(a.v[i].val, ObjGet(b, a.v[i].key))

\* Scalars: Null, Undefined, the Booleans, the non-finite Numbers and the
\* integers of a bounded range
ScalarValues ==
  {Null, Undef, Bool(TRUE), Bool(FALSE), NaN, Inf, NegInf}
  \cup {Num(n) : n \in (0 - MaxInt)..MaxInt}
InitScalar == InitWith(ScalarValues, {DEFAULT_OPTIONS})
SpecScalar == InitScalar /\ [][Next]_vars

(***************************************************************************)
(* C3 (stated as claimed; the code violates it): for every Text s passed   *)
(* to encode at top level, decode(encode(s)) returns, and returns exactly  *)
(* s.                                                                      *)
(***************************************************************************)
C3_TextRoundTrip ==
  pc = "decoded" /\ IsString(data) => ~out.hang /\ out.val = data

(***************************************************************************)
(* C8: encode maps Null to !null, Undefined to !undef, true to ?T, false   *)
(* to ?F, NaN to #NaN, +Infinity to #Inf, -Infinity to #-Inf and every     *)
(* other Number to # followed by its decimal text; decode maps each of     *)
(* these texts back to the original value.                                 *)
(***************************************************************************)
CanonicalLiteral(x) ==
  CASE x = Null -> <<"!", "n", "u", "l", "l">>
    [] x = Undef -> <<"!", "u", "n", "d", "e", "f">>
    [] x = Bool(TRUE) -> <<"?", "T">>
    [] x = Bool(FALSE) -> <<"?", "F">>
    [] x = NaN -> <<"#", "N", "a", "N">>
    [] x = Inf -> <<"#", "I", "n", "f">>
    [] x = NegInf -> <<"#", "-", "I", "n", "f">>
    [] OTHER -> <<"#">> \o (IF x.v < 0 THEN <<"-">> ELSE <<>>)
                \o NatToStr(IF x.v < 0 THEN 0 - x.v ELSE x.v)

C8_ScalarRoundTrip ==
  /\ pc \in {"encoded", "decoded"} /\ data \in ScalarValues
       => slim = CanonicalLiteral(data)
  /\ pc = "decoded" /\ data \in ScalarValues
       => ~out.hang /\ out.val = data

C8_Witness ==
  /\ pc = "decoded"
  /\ data = Num(0 - MaxInt)
  /\ out.val = Num(0 - MaxInt)
  /\ slim[1] = "#"

(***************************************************************************)
(* C9: encode(s) is s unchanged exactly when s is non-empty, contains none *)
(* of , ; newline | { } [ ] " # ? ! * @ and has no leading or trailing     *)
(* whitespace; otherwise it is a double quote, s with every double quote   *)
(* doubled and every newline replaced by backslash n, and a double quote.  *)
(***************************************************************************)
QuotingTriggers ==
  {",", ";", "\n", "|", "{", "}", "[", "]", "\"", "#", "?", "!", "*", "@"}

RECURSIVE Flatten(_)
Flatten(parts) == IF Len(parts) = 0 THEN <<>> ELSE parts[1] \o Flatten(Tail(parts))

QuotedForm(s) ==
  <<"\"">>
  \o Flatten([i \in 1..Len(s) |->
                IF s[i] = "\"" THEN <<"\"", "\"">>
                ELSE IF s[i] = "\n" THEN <<"\\", "n">>
                ELSE <<s[i]>>])
  \o <<"\"">>

StaysPlain(s) ==
  /\ Len(s) > 0
  /\ \A i \in 1..Len(s) : s[i] \notin QuotingTriggers
  /\ s[1] \notin WhiteSpace
  /\ s[Len(s)] \notin WhiteSpace

C9_QuotingRule ==
  pc = "encoded" /\ IsString(data) =>
    /\ (slim = data.v) <=> StaysPlain(data.v)
    /\ ~StaysPlain(data.v) => slim = QuotedForm(data.v)

C9_Witness ==
  /\ pc = "encoded"
  /\ IsString(data)
  /\ Len(data.v) = 2
  /\ data.v[1] = "\t"
  /\ data.v[2] = "\""
  /\ Len(slim) = 5

(***************************************************************************)
(* Input domains of the other specifications.                              *)
(***************************************************************************)
\* all sequences of 0..n members of set
Seqs(set, n) == UNION {[1..m -> set] : m \in 0..n}
NonEmptySeqs(set, n) == UNION {[1..m -> set] : m \in 1..n}

\* Raw text handed to decode
RawAlphabet == {"|", "@", "#", "[", "]", "}", "{", "\n", ",", "a", "1"}
InitRaw ==
  /\ pc = "encoded"
  /\ data = Undef
  /\ opts = DEFAULT_OPTIONS
  /\ slim \in Texts(RawAlphabet, MaxRawLen)
  /\ out = NoOut
  /\ SchemaIdle /\ DecodeIdle /\ StreamIdle
SpecRaw == InitRaw /\ [][Decode]_vars

\* Lists of records over the columns a, b: a field is absent, Null, a
\* Boolean, a Number or a Text
Absent == [k |-> "absent"]
TableColumns == <<<<"a">>, <<"b">>>>
CellAlphabet == {"x", "}", "\""}
CellValues ==
  {Null, Bool(TRUE), Num(1)} \cup {Str(t) : t \in Texts(CellAlphabet, MaxCellLen)}
RowOf(f) ==
  Obj(SelectSeq([c \in 1..Len(TableColumns) |-> [key |-> TableColumns[c], val |-> f[c]]],
                LAMBDA e : e.val # Absent))
TableRows == {RowOf(f) : f \in [1..Len(TableColumns) -> CellValues \cup {Absent}]}
TableValues == {List(rows) : rows \in NonEmptySeqs(TableRows, MaxRows)}
InitTable == InitWith(TableValues, {DEFAULT_OPTIONS})
SpecTable == InitTable /\ [][Next]_vars

\* Records with scalar values and arbitrary text keys
KeyAlphabet == {"a", ":", "\"", " "}
FieldValues == {Undef, Num(1), Str(<<"x">>)}
RecordFields == {[key |-> key, val |-> val] :
                   key \in Texts(KeyAlphabet, MaxKeyLen), val \in FieldValues}
RecordValues ==
  {Obj(es) : es \in {fs \in Seqs(RecordFields, MaxFields) :
                       \A i, j \in 1..Len(fs) : i # j => fs[i].key # fs[j].key}}
InitRecord == InitWith(RecordValues, {DEFAULT_OPTIONS})
SpecRecord == InitRecord /\ [][Next]_vars

\* Non-empty lists of Text without comma, semicolon or bracket
ElemAlphabet == {"a", " ", "#", "\"", "\n", "}", "|", "{"}
TextListValues ==
  {List(xs) : xs \in NonEmptySeqs({Str(t) : t \in Texts(ElemAlphabet, MaxElemLen)},
                                  MaxElems)}
InitTextList == InitWith(TextListValues, {DEFAULT_OPTIONS})
SpecTextList == InitTextList /\ [][Next]_vars

\* Non-empty lists of lists of Numbers
MatrixNumbers == {Num(1), Num(0 - 2), Num(10)}
MatrixValues ==
  {List(rows) :
     rows \in NonEmptySeqs({List(r) : r \in Seqs(MatrixNumbers, MaxRowLen)},
                           MaxMatrixRows)}
InitMatrix == InitWith(MatrixValues, {DEFAULT_OPTIONS})
SpecMatrix == InitMatrix /\ [][Next]_vars

\* Lists of mixed elements under every tableThreshold
ListElems ==
  {Null, Num(1), Str(<<"a">>), Str(<<",">>), List(<<Num(1)>>),
   Obj(<<[key |-> <<"a">>, val |-> Num(1)]>>)}
ListValues == {List(xs) : xs \in Seqs(ListElems, MaxListLen)}
ListOptions ==
  {[maxDepth |-> DefaultMaxDepth, tableThreshold |-> t] : t \in 0..MaxThreshold}
InitList == InitWith(ListValues, ListOptions)
SpecList == InitList /\ [][Next]_vars

(***************************************************************************)
(* C1 (stated as claimed; the code violates it): for every non-empty list  *)
(* of records that all have the same keys and whose field values are       *)
(* Booleans, Numbers or Text, decode(encode(rows)) is deep-equal to rows.  *)
(***************************************************************************)
\* the claim's case: a non-empty list of records with the same keys (at
\* least one) and Boolean, Number or Text values
UniformRows(x) ==
  /\ IsArray(x)
  /\ Len(x.v) > 0
  /\ IsPlainObject(x.v[1])
  /\ Len(x.v[1].v) > 0
  /\ \A i \in 1..Len(x.v) :
       /\ IsPlainObject(x.v[i])
       /\ ObjKeys(x.v[i]) = ObjKeys(x.v[1])
       /\ \A j \in 1..Len(x.v[i].v) :
            IsBoolean(x.v[i].v[j].val) \/ IsNumber(x.v[i].v[j].val)
            \/ IsString(x.v[i].v[j].val)

C1_TableRoundTrip ==
  pc = "decoded" /\ UniformRows(data) => ~out.hang /\ deepEqual(out.val, data)

(***************************************************************************)
(* C2 (stated as claimed; the code violates it): decode returns a value    *)
(* for every finite input text, malformed or truncated text included.      *)
(***************************************************************************)
C2_DecodeReturns == pc = "decoded" => ~out.hang

(***************************************************************************)
(* C4 (stated as claimed; the code violates it): for every non-empty list  *)
(* of n records, records with null or missing fields included,             *)
(* decode(encode(rows)) is a list of exactly n records.                    *)
(***************************************************************************)
C4_RowCountPreserved ==
  pc = "decoded" /\ data \in TableValues =>
    /\ ~out.hang
    /\ IsArray(out.val)
    /\ Len(out.val.v) = Len(data.v)
    /\ \A i \in 1..Len(out.val.v) : IsPlainObject(out.val.v[i])

(***************************************************************************)
(* C5 (stated as claimed; the code violates it): for every Record whose    *)
(* values are scalars and whose keys are arbitrary Text, decode(encode(r)) *)
(* has exactly the same keys in the same order, each with an equal value.  *)
(***************************************************************************)
C5_RecordRoundTrip ==
  pc = "decoded" /\ IsPlainObject(data) =>
    /\ ~out.hang
    /\ IsPlainObject(out.val)
    /\ ObjKeys(out.val) = ObjKeys(data)
    /\ \A i \in 1..Len(data.v) : deepEqual(out.val.v[i].val, data.v[i].val)

(***************************************************************************)
(* C6 (stated as claimed; the code violates it): for every non-empty List  *)
(* whose elements are all Text containing no comma, semicolon or bracket,  *)
(* decode(encode(l)) is deep-equal to l.                                   *)
(***************************************************************************)
C6_TextListRoundTrip ==
  pc = "decoded" /\ data \in TextListValues =>
    ~out.hang /\ deepEqual(out.val, data)

(***************************************************************************)
(* C7 (stated as claimed; the code violates it): every non-empty List      *)
(* whose every element is a List of Numbers, empty rows included, is       *)
(* encoded as *[row;row;...] and decode of that text returns the identical *)
(* nested lists.                                                           *)
(***************************************************************************)
C7_MatrixRoundTrip ==
  /\ pc \in {"encoded", "decoded"} /\ data \in MatrixValues =>
       /\ SubSeq(slim, 1, 2) = <<"*", "[">>
       /\ slim[Len(slim)] = "]"
       /\ Len(SelectSeq(slim, LAMBDA c : c = ";")) = Len(data.v) - 1
  /\ pc = "decoded" /\ data \in MatrixValues =>
       ~out.hang /\ deepEqual(out.val, data)

(***************************************************************************)
(* C10: array format selection follows the priority (1) empty gives @[];   *)
(* (2) every element a List of Numbers gives the Matrix form; (3) every    *)
(* element a Number gives @#[n,...]; (4) every element Text without comma, *)
(* semicolon or bracket gives @[t,...]; (5) element count >=               *)
(* tableThreshold and every element a plain Record gives the Table form;   *)
(* (6) otherwise the mixed form @[v;...], elements encoded recursively.    *)
(***************************************************************************)
PlainTexts(xs) == [i \in 1..Len(xs) |-> xs[i].v]
NumberTexts(xs) == [i \in 1..Len(xs) |-> NumberToString(xs[i])]

ExpectedArrayText(arr, o) ==
  IF Len(arr) = 0 THEN <<"@", "[", "]">>
  ELSE IF \A i \in 1..Len(arr) :
            arr[i].k = "list" /\ \A j \in 1..Len(arr[i].v) : IsNumber(arr[i].v[j])
  THEN <<"*", "[">>
       \o Join([i \in 1..Len(arr) |-> Join(NumberTexts(arr[i].v), <<",">>)], <<";">>)
       \o <<"]">>
  ELSE IF \A i \in 1..Len(arr) : IsNumber(arr[i])
  THEN <<"@", "#", "[">> \o Join(NumberTexts(arr), <<",">>) \o <<"]">>
  ELSE IF \A i \in 1..Len(arr) :
            arr[i].k = "str" /\ \A j \in 1..Len(arr[i].v) :
                                  arr[i].v[j] \notin {",", ";", "[", "]"}
  THEN <<"@", "[">> \o Join(PlainTexts(arr), <<",">>) \o <<"]">>
  ELSE IF Len(arr) >= o.tableThreshold /\ \A i \in 1..Len(arr) : arr[i].k = "obj"
  THEN encodeTable(arr, 0, o)
  ELSE <<"@", "[">>
       \o Join([i \in 1..Len(arr) |-> encodeValue(arr[i], 1, o)], <<";">>)
       \o <<"]">>

C10_FormatSelection ==
  pc = "encoded" /\ IsArray(data) =>
    /\ slim = ExpectedArrayText(data.v, opts)
    /\ (Len(data.v) > 0 /\ Len(data.v) < opts.tableThreshold
        /\ \A i \in 1..Len(data.v) : data.v[i].k = "obj")
         => SubSeq(slim, 1, 3) = <<"@", "[", "{">>

\* a list of records exactly at the threshold, in table form
C10_Witness ==
  /\ pc = "encoded"
  /\ IsArray(data)
  /\ Len(data.v) = 2
  /\ opts.tableThreshold = 2
  /\ \A i \in 1..Len(data.v) : data.v[i].k = "obj"
  /\ slim[1] = "|"

(***************************************************************************)
(* Schema utilities (src/src/schema.ts).  A column descriptor is           *)
(* [name, type, nullable] with type a one-character marker.  r[key] is     *)
(* the record's own entry, Undefined when the record has no such entry.    *)
(***************************************************************************)
\* inferSchema: the keys, [...new Set(data.flatMap(Object.keys))]
inferKeys(rows) == Dedup(FlatKeys(rows))

\* inferSchema: colTypes[key]
inferColType(rows, key) ==
  LET values == {i \in 1..Len(rows) : ~IsNullish(ObjGet(rows[i], key))}
      marker == IF values = {} THEN <<"!">>
                ELSE IF \A i \in values : IsBoolean(ObjGet(rows[i], key)) THEN <<"?">>
                ELSE IF \A i \in values : IsNumber(ObjGet(rows[i], key)) THEN <<"#">>
                ELSE IF \A i \in values : IsArray(ObjGet(rows[i], key)) THEN <<"@">>
                ELSE IF \A i \in values : IsPlainObject(ObjGet(rows[i], key))
                THEN <<"~">>
                ELSE <<"$">>
  IN IF \E i \in 1..Len(rows) : IsNullish(ObjGet(rows[i], key))
     THEN marker \o <<"!">>
     ELSE marker

\* inferSchema without the nullable mark
inferSchema_NoNullableMark(rows) ==
  IF Len(rows) = 0 THEN <<>>
  ELSE LET keys == inferKeys(rows)
       IN Join([i \in 1..Len(keys) |->
                  keys[i] \o <<Head(inferColType(rows, keys[i]))>>], <<",">>)

inferSchema(rows) ==
  IF Len(rows) = 0 THEN <<>>
  ELSE LET keys == inferKeys(rows)
       IN Join([i \in 1..Len(keys) |-> keys[i] \o inferColType(rows, keys[i])],
               <<",">>)

\* the markers of /^(.+?)([#?@~$])?(!)?$/ and the line terminators that the
\* dot of a regular expression does not match
SCHEMA_MARKERS == {"#", "?", "@", "~", "$"}
LineTerminators == {"\n", "\r"}

\* col.match(/^(.+?)([#?@~$])?(!)?$/): the shortest non-empty name free of
\* line terminators that leaves nothing, a marker, "!" or a marker and "!"
SchemaMatch(col) ==
  LET tailOk(j) ==
        LET rest == SubSeq(col, j + 1, Len(col))
        IN \/ Len(rest) = 0
           \/ Len(rest) = 1 /\ rest[1] \in SCHEMA_MARKERS \cup {"!"}
           \/ Len(rest) = 2 /\ rest[1] \in SCHEMA_MARKERS /\ rest[2] = "!"
      ok == {j \in 1..Len(col) :
               /\ \A m \in 1..j : col[m] \notin LineTerminators
               /\ tailOk(j)}
  IN IF ok = {} THEN [matched |-> FALSE]
     ELSE LET j == CHOOSE x \in ok : \A y \in ok : x <= y
              rest == SubSeq(col, j + 1, Len(col))
          IN [matched |-> TRUE,
              name |-> SubSeq(col, 1, j),
              marker |-> IF Len(rest) > 0 /\ rest[1] \in SCHEMA_MARKERS
                         THEN rest[1] ELSE "",
              bang |-> Len(rest) > 0 /\ rest[Len(rest)] = "!"]

parseColumn(col) ==
  LET found == SchemaMatch(col)
  IN IF ~found.matched
     THEN [name |-> col, type |-> "$", nullable |-> FALSE]
     ELSE [name |-> found.name,
           type |-> IF found.marker = "" THEN "$" ELSE found.marker,
           nullable |-> found.bang]

parseSchema(text) ==
  IF Len(text) = 0 THEN <<>>
  ELSE LET cols == Split(text, ",")
       IN [i \in 1..Len(cols) |-> parseColumn(cols[i])]

\* typeof value
typeOf(v) ==
  CASE v.k = "undef" -> "undefined"
    [] v.k = "bool" -> "boolean"
    [] IsNumber(v) -> "number"
    [] v.k = "str" -> "string"
    [] OTHER -> "object"

\* isCorrectType with the Record column accepting every typeof 'object'
isCorrectType_AnyObject(value, type) ==
  CASE type = "#" -> IsNumber(value)
    [] type = "?" -> IsBoolean(value)
    [] type = "$" -> IsString(value)
    [] type = "@" -> IsArray(value)
    [] type = "~" -> typeOf(value) = "object"
    [] OTHER -> TRUE

isCorrectType(value, type) ==
  CASE type = "#" -> IsNumber(value)
    [] type = "?" -> IsBoolean(value)
    [] type = "$" -> IsString(value)
    [] type = "@" -> IsArray(value)
    [] type = "~" -> IsPlainObject(value)
    [] OTHER -> TRUE

typeToString(type) ==
  CASE type = "#" -> "number"
    [] type = "?" -> "boolean"
    [] type = "$" -> "string"
    [] type = "@" -> "array"
    [] type = "~" -> "object"
    [] type = "!" -> "any (nullable)"
    [] OTHER -> "unknown"

\* validateRow for one column: the errors it pushes (none or one)
validateColumn(row, col, pathPrefix) ==
  LET path == IF Len(pathPrefix) > 0 THEN pathPrefix \o <<".">> \o col.name
              ELSE col.name
      value == ObjGet(row, col.name)
  IN IF IsNullish(value) /\ ~col.nullable
     THEN <<[path |-> path, message |-> "Missing required field",
             expected |-> typeToString(col.type)]>>
     ELSE IF IsNullish(value) THEN <<>>
     ELSE IF ~isCorrectType(value, col.type)
     THEN <<[path |-> path, message |-> "Type mismatch",
             expected |-> typeToString(col.type), actual |-> typeOf(value)]>>
     ELSE <<>>

validateRow(row, columns, pathPrefix) ==
  Join([c \in 1..Len(columns) |-> validateColumn(row, columns[c], pathPrefix)],
       <<>>)

\* `[${index}]`, the index counted from 0
IndexPath(i) == <<"[">> \o NatToStr(i - 1) \o <<"]">>

\* data.forEach: the errors of one element of a list
validateElement(row, index, columns) ==
  IF ~IsPlainObject(row)
  THEN <<[path |-> IndexPath(index), message |-> "Expected object",
          expected |-> "object", actual |-> typeOf(row)]>>
  ELSE validateRow(row, columns, IndexPath(index))

validateErrors(x, text) ==
  LET columns == parseSchema(text)
  IN IF IsArray(x)
     THEN Join([i \in 1..Len(x.v) |-> validateElement(x.v[i], i, columns)], <<>>)
     ELSE IF IsPlainObject(x) THEN validateRow(x, columns, <<>>)
     ELSE <<[path |-> <<>>, message |-> "Expected object or array of objects",
             expected |-> "object | object[]", actual |-> typeOf(x)]>>

\* validateSchema giving up after the first error
validateSchema_FirstErrorOnly(x, text) ==
  LET errors == validateErrors(x, text)
  IN IF Len(errors) > 0 THEN [valid |-> FALSE, errors |-> <<errors[1]>>]
     ELSE [valid |-> TRUE]

validateSchema(x, text) ==
  LET errors == validateErrors(x, text)
  IN IF Len(errors) > 0 THEN [valid |-> FALSE, errors |-> errors]
     ELSE [valid |-> TRUE]

\* inferSchema(records), called on the list that was encoded
InferSchema ==
  /\ pc = "encoded"
  /\ IsArray(data)
  /\ schema' = inferSchema(data.v)
  /\ pc' = "inferred"
  /\ UNCHANGED <<data, opts, slim, out, res, decodeVars, streamVars>>

\* parseSchema(schema)
ParseSchema ==
  /\ pc \in {"input", "decoded"}
  /\ res' = [op |-> "parseSchema", val |-> parseSchema(schema)]
  /\ pc' = "parsed"
  /\ UNCHANGED <<data, opts, slim, out, schema, decodeVars, streamVars>>

\* validateSchema(data, schema)
ValidateSchema ==
  /\ pc \in {"input", "inferred"}
  /\ res' = [op |-> "validateSchema", val |-> validateSchema(data, schema)]
  /\ pc' = "validated"
  /\ UNCHANGED <<data, opts, slim, out, schema, decodeVars, streamVars>>

(***************************************************************************)
(* Lists of records for schema inference: a record has one field under     *)
(* any key with any kind of value, or two fields under a and b in either   *)
(* order.  The keys include one that is a comma and one that is a bar.     *)
(***************************************************************************)
MaxSchemaRows == 2

SchemaKeys == {<<"a">>, <<"b">>, <<",">>, <<"|">>}
PairKeys == {<<"a">>, <<"b">>}
SchemaCellValues ==
  {Null, Undef, Bool(TRUE), Num(1), NaN, Str(<<"x">>), List(<<Num(1)>>),
   Obj(<<>>)}
PairCellValues == {Null, Num(1)}
SchemaRecords ==
  {Obj(<<>>)}
  \cup {Obj(<<[key |-> k, val |-> v]>>) : k \in SchemaKeys, v \in SchemaCellValues}
  \cup {Obj(<<[key |-> f[1], val |-> f[2]], [key |-> f[3], val |-> f[4]]>>) :
          f \in {g \in PairKeys \X PairCellValues \X PairKeys \X PairCellValues :
                   g[1] # g[3]}}
SchemaData == {List(rows) : rows \in Seqs(SchemaRecords, MaxSchemaRows)}

InitSchema ==
  /\ pc = "input"
  /\ data \in SchemaData
  /\ opts = DEFAULT_OPTIONS
  /\ slim = NoText
  /\ out = NoOut
  /\ SchemaIdle /\ DecodeIdle /\ StreamIdle
NextSchema == Encode \/ InferSchema
SpecSchema == InitSchema /\ [][NextSchema]_vars

(***************************************************************************)
(* What a claim about the table header speaks of: the union of the keys in *)
(* first-occurrence order, whether a column is nullable, and the header    *)
(* text that encode wrote before the first data row.                       *)
(***************************************************************************)
KeySet(rows) ==
  UNION {{rows[i].v[j].key : j \in 1..Len(rows[i].v)} : i \in 1..Len(rows)}
FirstRow(rows, key) ==
  CHOOSE i \in 1..Len(rows) :
    HasKey(rows[i], key) /\ \A m \in 1..(i - 1) : ~HasKey(rows[m], key)
KeyPos(row, key) == CHOOSE j \in 1..Len(row.v) : row.v[j].key = key
OccursBefore(rows, k1, k2) ==
  \/ FirstRow(rows, k1) < FirstRow(rows, k2)
  \/ /\ FirstRow(rows, k1) = FirstRow(rows, k2)
     /\ KeyPos(rows[FirstRow(rows, k1)], k1) < KeyPos(rows[FirstRow(rows, k2)], k2)
FirstOccurrenceKeys(rows) ==
  LET ks == KeySet(rows)
      rank(k) == Cardinality({k2 \in ks : OccursBefore(rows, k2, k)}) + 1
  IN [i \in 1..Cardinality(ks) |-> CHOOSE k \in ks : rank(k) = i]
LacksOrNull(rows, key) ==
  \E i \in 1..Len(rows) :
    \/ ~HasKey(rows[i], key)
    \/ ObjGet(rows[i], key).k \in {"null", "undef"}
HeaderText(n, schemaText) ==
  <<"|">> \o NatToStr(n) \o <<"|">> \o schemaText \o <<"|", "\n">>
HasHeader(text, n, schemaText) ==
  LET h == HeaderText(n, schemaText)
  IN Len(text) >= Len(h) /\ SubSeq(text, 1, Len(h)) = h

(***************************************************************************)
(* C11: in the table header that encode writes for a non-empty list of     *)
(* records, and in inferSchema's result, the columns are the union of the  *)
(* records' keys, each once, in first-occurrence order (records in         *)
(* sequence, keys in each record's own order), and a column ends with the  *)
(* nullable suffix ! exactly when some record lacks the key or holds Null  *)
(* or Undefined for it.                                                    *)
(***************************************************************************)
HeaderMarkers == {"?", "#", "@", "~", "$", "!"}

\* the texts a column of that name may take: the name, one marker, and the
\* suffix ! exactly when the column is nullable
ColumnTexts(name, isNullable) ==
  {name \o <<m>> \o (IF isNullable THEN <<"!">> ELSE <<>>) :
     m \in IF isNullable THEN HeaderMarkers ELSE HeaderMarkers \ {"!"}}

RECURSIVE IsColumnList(_, _, _)
IsColumnList(text, cols, rows) ==
  IF Len(cols) = 0 THEN Len(text) = 0
  ELSE \E c \in ColumnTexts(cols[1], LacksOrNull(rows, cols[1])) :
         /\ Len(text) >= Len(c)
         /\ SubSeq(text, 1, Len(c)) = c
         /\ IF Len(cols) = 1 THEN Len(text) = Len(c)
            ELSE /\ Len(text) > Len(c)
                 /\ text[Len(c) + 1] = ","
                 /\ IsColumnList(SubSeq(text, Len(c) + 2, Len(text)), Tail(cols), rows)

MarkerOfFive(rows, key) ==
  LET vals == {ObjGet(rows[i], key) : i \in {m \in 1..Len(rows) : HasKey(rows[m], key)}}
             \ {Null, Undef}
  IN IF vals # {} /\ \A v \in vals : v.k = "bool" THEN "?"
     ELSE IF vals # {} /\ \A v \in vals : v.k \in {"num", "nan", "inf", "ninf"} THEN "#"
     ELSE IF vals # {} /\ \A v \in vals : v.k = "list" THEN "@"
     ELSE IF vals # {} /\ \A v \in vals : v.k = "obj" THEN "~"
     ELSE "$"

RECURSIVE IsMarkedColumnList(_, _, _)
IsMarkedColumnList(text, cols, rows) ==
  IF Len(cols) = 0 THEN Len(text) = 0
  ELSE LET plain == cols[1] \o <<MarkerOfFive(rows, cols[1])>>
       IN \E c \in {plain, plain \o <<"!">>} :
            /\ Len(text) >= Len(c)
            /\ SubSeq(text, 1, Len(c)) = c
            /\ IF Len(cols) = 1 THEN Len(text) = Len(c)
               ELSE /\ Len(text) > Len(c)
                    /\ text[Len(c) + 1] = ","
                    /\ IsMarkedColumnList(SubSeq(text, Len(c) + 2, Len(text)),
                                          Tail(cols), rows)

C12_MarkerOfFive ==
  pc = "inferred" /\ Len(data.v) > 0 =>
    /\ IsMarkedColumnList(schema, FirstOccurrenceKeys(data.v), data.v)
    /\ HasHeader(slim, Len(data.v), schema)

(***************************************************************************)
(* C13: inferSchema agrees with table encoding: for a non-empty list of    *)
(* plain records, inferSchema(records) is character for character the      *)
(* schema segment that encode(records) places between the second and the   *)
(* third | of its table header (the segment the encoder writes there; it   *)
(* is also the third piece of the text split on | whenever no key holds a  *)
(* |); inferSchema of the empty list is the empty text.                    *)
(***************************************************************************)
NoBarInKeys(rows) == \A key \in KeySet(rows) : ~Contains(key, {"|"})

C13_InferSchemaAgrees ==
  pc = "inferred" =>
    /\ Len(data.v) = 0 => schema = <<>>
    /\ Len(data.v) > 0 =>
         /\ HasHeader(slim, Len(data.v), schema)
         /\ NoBarInKeys(data.v) => Split(slim, "|")[3] = schema

\* two records with different keys: both columns nullable, the segment
\* between the bars is inferSchema's text
C13_Witness ==
  /\ pc = "inferred"
  /\ Len(data.v) = 2
  /\ schema = <<"a", "#", "!", ",", "b", "$", "!">>
  /\ Split(slim, "|")[3] = schema

(***************************************************************************)
(* Data and schema texts for validateSchema: lists whose elements are      *)
(* records over a and b or are no records at all, single records, values   *)
(* that are neither; schemas of one or two columns with every marker, with *)
(* and without the nullable mark.                                          *)
(***************************************************************************)
MaxValidateRows == 2

ValidateRecords ==
  {Obj(<<>>)}
  \cup {Obj(<<[key |-> <<"a">>, val |-> v]>>) : v \in SchemaCellValues}
  \cup {Obj(<<[key |-> <<"a">>, val |-> v], [key |-> <<"b">>, val |-> w]>>) :
          v \in PairCellValues, w \in PairCellValues}
NoRecords == {Num(1), Null, List(<<>>)}
NeitherValues == {Null, Undef, Bool(TRUE), Num(1), Str(<<"x">>)}
ValidateData ==
  {List(xs) : xs \in Seqs(ValidateRecords \cup NoRecords, MaxValidateRows)}
  \cup ValidateRecords
  \cup NeitherValues

MarkerTexts == {<<>>} \cup {<<m>> : m \in SCHEMA_MARKERS}
FirstColumns == {<<"a">> \o m \o n : m \in MarkerTexts, n \in {<<>>, <<"!">>}}
SecondColumns == {<<"b", "#">>, <<"b", "!">>}
ValidateSchemas ==
  {<<>>} \cup FirstColumns
  \cup {c \o <<",">> \o d : c \in FirstColumns, d \in SecondColumns}

InitValidate ==
  /\ pc = "input"
  /\ data \in ValidateData
  /\ schema \in ValidateSchemas
  /\ opts = DEFAULT_OPTIONS
  /\ slim = NoText
  /\ out = NoOut
  /\ res = NoRes
  /\ DecodeIdle /\ StreamIdle
SpecValidate == InitValidate /\ [][ValidateSchema]_vars

\* what the claims call a violation: the field is missing, Undefined or Null
\* on a column that is not nullable, or present with another kind than the
\* column's type
KindMarker(v) ==
  CASE v.k = "bool" -> "?"
    [] v.k \in {"num", "nan", "inf", "ninf"} -> "#"
    [] v.k = "str" -> "$"
    [] v.k = "list" -> "@"
    [] v.k = "obj" -> "~"
    [] OTHER -> ""
Present(rec, name) ==
  \E j \in 1..Len(rec.v) : rec.v[j].key = name /\ rec.v[j].val.k \notin {"null", "undef"}
FieldOf(rec, name) == rec.v[CHOOSE j \in 1..Len(rec.v) : rec.v[j].key = name].val
Violates(rec, col) ==
  IF Present(rec, col.name) THEN KindMarker(FieldOf(rec, col.name)) # col.type
  ELSE ~col.nullable
ListPath(i, name) == <<"[">> \o NatToStr(i - 1) \o <<"]", ".">> \o name

\* the paths of the expected errors, in record order then column order
ViolationsOf(rec, cols, i) ==
  Join([c \in 1..Len(cols) |->
          IF Violates(rec, cols[c])
          THEN <<IF i = 0 THEN cols[c].name ELSE ListPath(i, cols[c].name)>>
          ELSE <<>>], <<>>)
ExpectedPaths(x, cols) ==
  IF x.k = "list"
  THEN Join([i \in 1..Len(x.v) |->
               IF x.v[i].k = "obj" THEN ViolationsOf(x.v[i], cols, i)
               ELSE << <<"[">> \o NatToStr(i - 1) \o <<"]">> >>], <<>>)
  ELSE IF x.k = "obj" THEN ViolationsOf(x, cols, 0)
  ELSE << <<>> >>

ErrorsOf(r) == IF r.valid THEN <<>> ELSE r.errors
MessagesAt(errors, path) ==
  LET at == {i \in 1..Len(errors) : errors[i].path = path}
  IN [count |-> Cardinality(at), messages |-> {errors[i].message : i \in at}]
Classified(errors, rec, col, path) ==
  LET found == MessagesAt(errors, path)
      isMissing == ~HasKey(rec, col.name)
      held == IF isMissing THEN Undef ELSE FieldOf(rec, col.name)
  IN IF isMissing \/ held.k \in {"null", "undef"}
     THEN IF ~col.nullable
          THEN found = [count |-> 1, messages |-> {"Missing required field"}]
          ELSE (isMissing \/ held.k = "null") => found.count = 0
     ELSE IF KindMarker(held) # col.type
     THEN found = [count |-> 1, messages |-> {"Type mismatch"}]
     ELSE found.count = 0

MaxSchemaLen == 4

SchemaAlphabet == {"a", ",", "#", "$", "!", "\n"}
InitParse ==
  /\ pc = "input"
  /\ data = Undef
  /\ schema \in Texts(SchemaAlphabet, MaxSchemaLen)
  /\ opts = DEFAULT_OPTIONS
  /\ slim = NoText
  /\ out = NoOut
  /\ res = NoRes
  /\ DecodeIdle /\ StreamIdle
SpecParse == InitParse /\ [][ParseSchema]_vars

(***************************************************************************)
(* C16: parseSchema returns one column descriptor per comma-separated      *)
(* entry, in entry order; for an entry made of a non-empty name holding    *)
(* none of , # ? @ ~ $ !, then an optional marker from # ? @ ~ $, then an  *)
(* optional !, the descriptor has that name, the marker as type ($ when    *)
(* there is none) and nullable true exactly when the entry ends with !;    *)
(* the empty schema text gives the empty list.                             *)
(***************************************************************************)
NameStops == {",", "#", "?", "@", "~", "$", "!"}

\* the longest prefix free of name stops
NameLen(entry) ==
  CHOOSE n \in 0..Len(entry) :
    /\ \A m \in 1..n : entry[m] \notin NameStops
    /\ n < Len(entry) => entry[n + 1] \in NameStops
EntrySuffix(entry) == SubSeq(entry, NameLen(entry) + 1, Len(entry))
WellFormedEntry(entry) ==
  /\ NameLen(entry) > 0
  /\ EntrySuffix(entry) \in
       {<<>>, <<"!">>} \cup {<<m>> : m \in {"#", "?", "@", "~", "$"}}
       \cup {<<m, "!">> : m \in {"#", "?", "@", "~", "$"}}
DescriptorOf(entry) ==
  LET suffix == EntrySuffix(entry)
  IN [name |-> SubSeq(entry, 1, NameLen(entry)),
      type |-> IF Len(suffix) > 0 /\ suffix[1] # "!" THEN suffix[1] ELSE "$",
      nullable |-> Len(suffix) > 0 /\ suffix[Len(suffix)] = "!"]

C16_ParseSchema ==
  pc = "parsed" =>
    IF Len(schema) = 0 THEN res.val = <<>>
    ELSE LET entries == Split(schema, ",")
         IN /\ Len(res.val) = Len(entries)
            /\ \A i \in 1..Len(entries) :
                 WellFormedEntry(entries[i]) => res.val[i] = DescriptorOf(entries[i])

(***************************************************************************)
(* Raw text handed to decode with the option strict given: markers after   *)
(* !, quotes, braces.                                                      *)
(***************************************************************************)
MaxStrictLen == 3

StrictAlphabet == {"!", "x", "\"", "{", "}"}
InitStrict ==
  /\ pc = "encoded"
  /\ data = Undef
  /\ opts = DEFAULT_OPTIONS
  /\ slim \in Texts(StrictAlphabet, MaxStrictLen)
  /\ out = NoOut
  /\ dopts \in {[strict |-> b] : b \in BOOLEAN}
  /\ threw = FALSE
  /\ slim2 = NoText
  /\ SchemaIdle /\ StreamIdle
SpecStrict == InitStrict /\ [][Decode]_vars

(***************************************************************************)
(* C17: with the decode option strict set to true, decode raises an error  *)
(* when the input is not valid SLIM (an unknown marker after !, an         *)
(* unterminated quoted string, unbalanced braces) instead of returning a   *)
(* value.                                                                  *)
(***************************************************************************)
BangNames == {<<"n", "u", "l", "l">>, <<"u", "n", "d", "e", "f">>, <<"D", "E", "E", "P">>}
CountOf(s, c) == Cardinality({i \in 1..Len(s) : s[i] = c})
UnknownBangMarker(s) ==
  /\ StartsWith(s, "!")
  /\ \A name \in BangNames :
       ~(Len(s) > Len(name) /\ SubSeq(s, 2, Len(name) + 1) = name)
UnterminatedQuote(s) == StartsWith(s, "\"") /\ CountOf(s, "\"") = 1
UnbalancedBraces(s) == CountOf(s, "\"") = 0 /\ CountOf(s, "{") # CountOf(s, "}")
InvalidSlim(s) == UnknownBangMarker(s) \/ UnterminatedQuote(s) \/ UnbalancedBraces(s)

C17_StrictRaises ==
  pc = "decoded" /\ dopts.strict /\ InvalidSlim(slim) => threw

(***************************************************************************)
(* Encoding again what decode returned: encode(decode(x)) for a text x     *)
(* that encode produced.                                                   *)
(***************************************************************************)
ReEncode ==
  /\ pc = "decoded"
  /\ ~out.hang
  /\ ~threw
  /\ slim2' = encode(out.val, opts)
  /\ pc' = "reencoded"
  /\ UNCHANGED <<data, opts, slim, out, dopts, threw, schemaVars, streamVars>>

ReencodeValues == ScalarValues \cup TextListValues
InitReencode == InitWith(ReencodeValues, {DEFAULT_OPTIONS})
NextReencode == Encode \/ Decode \/ ReEncode
SpecReencode == InitReencode /\ [][NextReencode]_vars

(***************************************************************************)
(* C18: re-encoding is stable: for every text x that encode can produce    *)
(* from a value, decode(x) returns and encode(decode(x)) is exactly x.     *)
(***************************************************************************)
C18_ReencodeStable ==
  /\ pc = "decoded" => ~out.hang
  /\ pc = "reencoded" => slim2 = slim

(***************************************************************************)
(* The incremental encoder and decoder (src/src/stream.ts).  While one of  *)
(* them is in use pc = "stream"; written logs the arguments of its write   *)
(* calls and ret holds the last call and what it returned.                 *)
(***************************************************************************)
EMPTY_ARRAY == <<"@", "[", "]">>

\* createEncoder: write with the new record put in front of the buffer
encoderWrite_Prepend(buffer, obj) == <<obj>> \o buffer

encoderWrite(buffer, obj) == Append(buffer, obj)
encoderEnd(buffer, options) ==
  IF Len(buffer) = 0 THEN EMPTY_ARRAY ELSE encode(List(buffer), options)
encoderSize(buffer) == Len(buffer)

\* buffer.trim()
RECURSIVE trim(_)
trim(s) ==
  IF Len(s) = 0 THEN s
  ELSE IF s[1] \in WhiteSpace THEN trim(Tail(s))
  ELSE IF s[Len(s)] \in WhiteSpace THEN trim(SubSeq(s, 1, Len(s) - 1))
  ELSE s

\* createDecoder: write keeping only the newest chunk
decoderWrite_KeepLast(buffer, chunk) == chunk

decoderWrite(buffer, chunk) == buffer \o chunk
decoderEnd(buffer, options) ==
  IF Len(trim(buffer)) = 0 THEN [hang |-> FALSE, val |-> Undef]
  ELSE decodeWith(buffer, options)
decoderHasPending(buffer) == Len(trim(buffer)) > 0

MaxWrites == 3
MaxStreamLen == 3
MaxChunks == 3

StreamRecords ==
  {Obj(<<[key |-> <<"a">>, val |-> Num(1)]>>),
   Obj(<<[key |-> <<"a">>, val |-> Str(<<"x">>)]>>),
   Obj(<<[key |-> <<"b">>, val |-> Null]>>)}
StreamOptions == {DEFAULT_OPTIONS, [maxDepth |-> DefaultMaxDepth, tableThreshold |-> 2]}

EncoderWrite ==
  /\ pc = "stream"
  /\ Len(written) < MaxWrites
  /\ \E obj \in StreamRecords :
       /\ encBuffer' = encoderWrite(encBuffer, obj)
       /\ written' = Append(written, obj)
  /\ ret' = [call |-> "write"]
  /\ UNCHANGED <<pc, data, opts, slim, out, schemaVars, decodeVars, decBuffer, feed, gen>>

EncoderEnd ==
  /\ pc = "stream"
  /\ ret' = [call |-> "end", val |-> encoderEnd(encBuffer, opts)]
  /\ UNCHANGED <<pc, data, opts, slim, out, schemaVars, decodeVars, encBuffer,
                 written, decBuffer, feed, gen>>

EncoderSize ==
  /\ pc = "stream"
  /\ ret' = [call |-> "size", val |-> encoderSize(encBuffer)]
  /\ UNCHANGED <<pc, data, opts, slim, out, schemaVars, decodeVars, encBuffer,
                 written, decBuffer, feed, gen>>

InitEncoder ==
  /\ pc = "stream"
  /\ data = Undef
  /\ opts \in StreamOptions
  /\ slim = NoText
  /\ out = NoOut
  /\ SchemaIdle /\ DecodeIdle /\ StreamIdle
NextEncoder == EncoderWrite \/ EncoderEnd \/ EncoderSize
SpecEncoder == InitEncoder /\ [][NextEncoder]_vars

\* the decoder is fed the text of feed, cut into chunks at any place
DecoderWrite ==
  /\ pc = "stream"
  /\ Len(written) < MaxChunks
  /\ \E n \in 0..Len(feed) :
       /\ decBuffer' = decoderWrite(decBuffer, SubSeq(feed, 1, n))
       /\ written' = Append(written, SubSeq(feed, 1, n))
       /\ feed' = SubSeq(feed, n + 1, Len(feed))
  /\ ret' = [call |-> "write"]
  /\ UNCHANGED <<pc, data, opts, slim, out, schemaVars, decodeVars, encBuffer, gen>>

DecoderEnd ==
  /\ pc = "stream"
  /\ ret' = [call |-> "end", val |-> decoderEnd(decBuffer, dopts)]
  /\ UNCHANGED <<pc, data, opts, slim, out, schemaVars, decodeVars, encBuffer,
                 written, decBuffer, feed, gen>>

DecoderHasPending ==
  /\ pc = "stream"
  /\ ret' = [call |-> "hasPending", val |-> decoderHasPending(decBuffer)]
  /\ UNCHANGED <<pc, data, opts, slim, out, schemaVars, decodeVars, encBuffer,
                 written, decBuffer, feed, gen>>

StreamAlphabet == {" ", "\n", "a", "#", "1", "{"}
InitDecoder ==
  /\ pc = "stream"
  /\ data = Undef
  /\ opts = DEFAULT_OPTIONS
  /\ slim = NoText
  /\ out = NoOut
  /\ SchemaIdle /\ DecodeIdle
  /\ encBuffer = <<>>
  /\ written = <<>>
  /\ decBuffer = NoText
  /\ feed \in Texts(StreamAlphabet, MaxStreamLen)
  /\ ret = NoRet
  /\ gen = NoGen
NextDecoder == DecoderWrite \/ DecoderEnd \/ DecoderHasPending
SpecDecoder == InitDecoder /\ [][NextDecoder]_vars

(***************************************************************************)
(* C19: for one encoder of createEncoder, after any sequence of write and  *)
(* end calls, size() is the number of write calls made so far and end()    *)
(* returns @[] when no record was written and otherwise encode of the list *)
(* of all records written so far, in write order, with the encoder's       *)
(* options; end() does not clear the buffer, so two end() calls in a row   *)
(* return the same text and a write after end() shows in the next end():   *)
(* whatever calls came before, what end() returns is fixed by the writes.  *)
(***************************************************************************)
C19_EncoderCalls ==
  /\ ret.call = "size" => ret.val = Len(written)
  /\ ret.call = "end" =>
       ret.val = IF Len(written) = 0 THEN <<"@", "[", "]">>
                 ELSE encode(List(written), opts)

\* two different records written, then end(): the table of both, in order
C19_Witness ==
  /\ ret.call = "end"
  /\ Len(written) = 2
  /\ written[1] = Obj(<<[key |-> <<"a">>, val |-> Num(1)]>>)
  /\ written[2] = Obj(<<[key |-> <<"a">>, val |-> Str(<<"x">>)]>>)
  /\ ret.val = <<"|", "2", "|", "a", "$", "|", "\n", "1", "\n", "x">>

(***************************************************************************)
(* C20: for one decoder of createDecoder, end() depends only on the        *)
(* concatenation of the chunks in write order: however the text is cut     *)
(* into write calls, end() returns decode(text), or Undefined when the     *)
(* text is empty or only whitespace; hasPending() is true exactly when the *)
(* concatenation holds a character that is not whitespace.                 *)
(***************************************************************************)
ChunksText == Join(written, <<>>)
OnlyWhitespace(text) == \A i \in 1..Len(text) : text[i] \in {" ", "\t", "\n", "\r"}

C20_DecoderCalls ==
  /\ ret.call = "end" =>
       ret.val = IF OnlyWhitespace(ChunksText)
                 THEN [hang |-> FALSE, val |-> Undef]
                 ELSE decode(ChunksText)
  /\ ret.call = "hasPending" => ret.val = ~OnlyWhitespace(ChunksText)

\* the text #1 written as the chunks # and 1, then end(): the Number 1
C20_Witness ==
  /\ ret.call = "end"
  /\ written = << <<"#">>, <<"1">> >>
  /\ feed = <<>>
  /\ ret.val = [hang |-> FALSE, val |-> Num(1)]

(***************************************************************************)
(* encodeChunked (src/src/stream.ts): a generator.  Calling it runs        *)
(* nothing; each next() resumes the body, which runs to its next yield or  *)
(* to its end.  written records the texts yielded, the first MaxYielded    *)
(* of them.  The loop index is a double: far enough below zero adding a    *)
(* negative chunkSize leaves it as it is, which the model does at          *)
(* -MinIndex.                                                              *)
(***************************************************************************)
MaxChunkRows == 3
MaxChunkSize == 3
MinIndex == 3
MaxYielded == MaxChunkRows + 1

Min(a, b) == IF a < b THEN a ELSE b
Max(a, b) == IF a > b THEN a ELSE b

\* the index that slice takes for an argument: counted from the end when
\* negative, kept within 0..len
RelativeIndex(k, len) == IF k < 0 THEN Max(len + k, 0) ELSE Min(k, len)

\* slice taking the element at end too
slice_Inclusive(arr, start, end) ==
  SubSeq(arr, RelativeIndex(start, Len(arr)) + 1,
         Min(RelativeIndex(end, Len(arr)) + 1, Len(arr)))

\* objects.slice(start, end)
slice(arr, start, end) ==
  SubSeq(arr, RelativeIndex(start, Len(arr)) + 1, RelativeIndex(end, Len(arr)))

\* i += chunkSize
AddIndex(i, chunkSize) == Max(i + chunkSize, 0 - MinIndex)

\* the caller's next(): the body goes on from where it was suspended, from
\* the start with let i = 0, from a yield with i += chunkSize
GenNext ==
  /\ pc = "chunked"
  /\ gen.state \in {"suspendedStart", "suspendedYield"}
  /\ gen' = [gen EXCEPT !.state = "executing",
                        !.i = IF gen.state = "suspendedStart" THEN 0
                              ELSE AddIndex(gen.i, gen.chunkSize)]
  /\ ret' = [call |-> "next"]
  /\ UNCHANGED <<pc, data, opts, slim, out, schemaVars, decodeVars, encBuffer,
                 written, decBuffer, feed>>

\* the loop's test i < objects.length: the body suspends at the yield or
\* returns
GenTest ==
  /\ pc = "chunked"
  /\ gen.state = "executing"
  /\ gen' = [gen EXCEPT !.state = IF gen.i < Len(data.v) THEN "suspendedYield"
                                  ELSE "completed"]

\* the body from the loop's test: yield encode(chunk, options) or return
GenRun ==
  /\ GenTest
  /\ IF gen.i < Len(data.v)
     THEN LET chunk == slice(data.v, gen.i, gen.i + gen.chunkSize)
              text == encode(List(chunk), opts)
          IN /\ written' = IF Len(written) < MaxYielded
                           THEN Append(written, text) ELSE written
             /\ ret' = [call |-> "next", done |-> FALSE, value |-> text]
     ELSE /\ written' = written
          /\ ret' = [call |-> "next", done |-> TRUE]
  /\ UNCHANGED <<pc, data, opts, slim, out, schemaVars, decodeVars, encBuffer,
                 decBuffer, feed>>

\* encodeChunked(objects, chunkSize, options) for lists of up to MaxChunkRows
\* records and chunk sizes from -1 to MaxChunkSize
ChunkSizes == -1..MaxChunkSize
InitChunked ==
  /\ pc = "chunked"
  /\ data \in {List(rows) : rows \in Seqs(StreamRecords, MaxChunkRows)}
  /\ opts \in StreamOptions
  /\ slim = NoText
  /\ out = NoOut
  /\ SchemaIdle /\ DecodeIdle
  /\ encBuffer = <<>>
  /\ written = <<>>
  /\ decBuffer = NoText
  /\ feed = NoText
  /\ ret = NoRet
  /\ \E size \in ChunkSizes :
       gen = [chunkSize |-> size, i |-> 0, state |-> "suspendedStart"]
NextChunked == GenNext \/ GenRun
SpecChunked == InitChunked /\ [][NextChunked]_vars

(***************************************************************************)
(* C21: for every list of n records and every chunkSize >= 1,              *)
(* encodeChunked yields exactly ceil(n / chunkSize) texts (none when       *)
(* n = 0), the i-th being encode of the records at positions i*chunkSize   *)
(* up to min(n, (i+1)*chunkSize) - 1 (counted from 0): every chunk holds   *)
(* between 1 and chunkSize records and the chunks in order cover every     *)
(* record once, in the original order.                                     *)
(***************************************************************************)
CeilDiv(n, d) == (n + d - 1) \div d

\* the records of the i-th chunk (i counted from 1)
ChunkRecords(rows, size, i) ==
  SubSeq(rows, (i - 1) * size + 1, Min(Len(rows), i * size))

ExpectedChunks(rows, size, options) ==
  [i \in 1..CeilDiv(Len(rows), size) |->
     encode(List(ChunkRecords(rows, size, i)), options)]

C21_Chunks ==
  pc = "chunked" /\ gen.chunkSize >= 1 =>
    LET expected == ExpectedChunks(data.v, gen.chunkSize, opts)
        count == CeilDiv(Len(data.v), gen.chunkSize)
    IN /\ Len(written) <= count
       /\ written = SubSeq(expected, 1, Len(written))
       /\ gen.state = "completed" => Len(written) = count
       /\ \A i \in 1..count :
            /\ Len(ChunkRecords(data.v, gen.chunkSize, i)) \in 1..gen.chunkSize
       /\ Join([i \in 1..count |-> ChunkRecords(data.v, gen.chunkSize, i)], <<>>)
            = data.v

\* three records in chunks of two: two texts, the second with one record
C21_Witness ==
  /\ pc = "chunked"
  /\ gen.state = "completed"
  /\ gen.chunkSize = 2
  /\ Len(data.v) = 3
  /\ Len(written) = 2
  /\ written[2] = encode(List(<<data.v[3]>>), opts)

(***************************************************************************)
(* The caller that iterates the generator to exhaustion ([...gen], for-of) *)
(* calls next() again after every yield, and a resumed body runs: both     *)
(* steps happen whenever they can.  Every step of a body that is           *)
(* executing is a GenRun step, so GenTest is fair exactly when GenRun is.  *)
(***************************************************************************)
LiveChunked == SpecChunked /\ WF_gen(GenNext) /\ WF_gen(GenTest)

(***************************************************************************)
(* C27: for every list of records and every integer chunkSize, 0 and       *)
(* negative values included, iterating the generator of encodeChunked to   *)
(* exhaustion yields finitely many chunks and then completes.              *)
(***************************************************************************)
C27_Finishes == <>(gen.state = "completed")

(***************************************************************************)
(* Values for the depth limit: one leaf that writes the character 7, the   *)
(* Number 7 or the Text "7", inside up to MaxNesting containers, each a    *)
(* one-element List, a two-element List or a one-field Record.  Among      *)
(* them are a numeric list, a text list, a matrix, tables with scalar,     *)
(* List and Record cells, a table that is a record field, and mixed lists. *)
(* maxDepth goes from 0 to MaxDepthLimit.  No other part of a value or of  *)
(* the format writes a 7.                                                  *)
(***************************************************************************)
MaxNesting == 3
MaxDepthLimit == 2

DepthLeaves == {Num(7), Str(<<"7">>)}
Wrap(v) ==
  {List(<<v>>), List(<<v, Bool(TRUE)>>), Obj(<<[key |-> <<"a">>, val |-> v]>>)}
RECURSIVE Nested(_)
Nested(n) == IF n = 0 THEN DepthLeaves ELSE UNION {Wrap(v) : v \in Nested(n - 1)}
DepthValues == UNION {Nested(n) : n \in 0..MaxNesting}
DepthOptions ==
  {[maxDepth |-> d, tableThreshold |-> DefaultTableThreshold] : d \in 0..MaxDepthLimit}

InitDepth == InitWith(DepthValues, DepthOptions)
SpecDepth == InitDepth /\ [][Encode]_vars

\* the nesting depths at which the leaves of x sit, x being at depth
RECURSIVE LeafDepths(_, _)
LeafDepths(x, depth) ==
  IF x \in DepthLeaves THEN {depth}
  ELSE IF IsArray(x)
  THEN UNION {LeafDepths(x.v[i], depth + 1) : i \in 1..Len(x.v)}
  ELSE IF IsPlainObject(x)
  THEN UNION {LeafDepths(x.v[i].val, depth + 1) : i \in 1..Len(x.v)}
  ELSE {}

Includes(text, part) ==
  \E i \in 1..(Len(text) - Len(part) + 1) :
    SubSeq(text, i, i + Len(part) - 1) = part

DEEP == <<"!", "D", "E", "E", "P">>

(***************************************************************************)
(* C22: with the root at nesting depth 0 and each List element or Record   *)
(* field value one deeper than its container, a sub-value deeper than      *)
(* maxDepth is emitted as !DEEP and nothing of it is emitted, whatever     *)
(* form its container takes; a sub-value at depth <= maxDepth is encoded   *)
(* normally.  For the leaf that writes 7: the text holds a 7 exactly when  *)
(* the leaf is at a depth <= maxDepth, and holds !DEEP when it is not.     *)
(***************************************************************************)
C22_DepthLimit ==
  pc = "encoded" =>
    \A d \in LeafDepths(data, 0) :
      /\ Contains(slim, {"7"}) <=> d <= opts.maxDepth
      /\ d > opts.maxDepth => Includes(slim, DEEP)

(***************************************************************************)
(* Tables whose cells are Numbers, Texts (one of them a line break), Lists *)
(* of Numbers and of Texts, and nested Records (one holding a list of      *)
(* records); a record has the field a, or the fields a and b.              *)
(***************************************************************************)
MaxLayoutRows == 2

LayoutCells ==
  {Null, Num(1), Str(<<"x">>), Str(<<"\n">>), Str(<<"x", "\n", "y">>),
   List(<<Num(1), Num(2)>>), List(<<Str(<<"x">>), Str(<<"y">>)>>),
   List(<<Str(<<"\n">>)>>),
   Obj(<<[key |-> <<"c">>, val |-> Str(<<"\n">>)]>>),
   Obj(<<[key |-> <<"c">>,
          val |-> List(<<Obj(<<[key |-> <<"d">>, val |-> Num(1)]>>)>>)]>>)}
LayoutRecords ==
  {Obj(<<[key |-> <<"a">>, val |-> c]>>) : c \in LayoutCells}
  \cup {Obj(<<[key |-> <<"a">>, val |-> Num(1)], [key |-> <<"b">>, val |-> c]>>) :
          c \in LayoutCells}
LayoutValues == {List(rows) : rows \in NonEmptySeqs(LayoutRecords, MaxLayoutRows)}

InitLayout == InitWith(LayoutValues, {DEFAULT_OPTIONS})
SpecLayout == InitLayout /\ [][Encode]_vars

\* the place of the first line break of a text, 0 when it has none
FirstBreak(text) ==
  IF Contains(text, {"\n"})
  THEN CHOOSE i \in 1..Len(text) :
         text[i] = "\n" /\ \A j \in 1..(i - 1) : text[j] # "\n"
  ELSE 0

(***************************************************************************)
(* C23: for every list of n >= 1 records encoded in Table form, the text   *)
(* is the header |n|schema| followed by a newline and then exactly n data  *)
(* lines separated by single newlines, one line for each record in order;  *)
(* no cell (Text, List cell, nested Record cell) contributes a raw newline *)
(* of its own.                                                             *)
(***************************************************************************)
C23_TableLayout ==
  pc = "encoded" =>
    LET n == Len(data.v)
        break == FirstBreak(slim)
        start == <<"|">> \o NatToStr(n) \o <<"|">>
        body == SubSeq(slim, break + 1, Len(slim))
    IN /\ break > Len(start) + 1
       /\ SubSeq(slim, 1, Len(start)) = start
       /\ slim[break - 1] = "|"
       /\ Len(Split(body, "\n")) = n

(***************************************************************************)
(* Table texts for the decoder: one column a or two columns a and b, each  *)
(* a Number (#) or Text ($) column, nullable or not; up to MaxCellRows     *)
(* data lines, each with one cell for every column, a cell being empty or  *)
(* a value of the column's type (1 in a Number column, x in a Text one).   *)
(***************************************************************************)
MaxCellRows == 2

CellColumns(name) ==
  {[name |-> name, marker |-> m, nullable |-> b] : m \in {"#", "$"}, b \in BOOLEAN}
CellHeaders ==
  {<<c>> : c \in CellColumns(<<"a">>)}
  \cup {<<c1, c2>> : c1 \in CellColumns(<<"a">>), c2 \in CellColumns(<<"b">>)}
CellsOf(col) == {<<>>, IF col.marker = "#" THEN <<"1">> ELSE <<"x">>}
CellLines(cols) ==
  {line \in [1..Len(cols) -> {<<>>, <<"1">>, <<"x">>}] :
     \A j \in 1..Len(cols) : line[j] \in CellsOf(cols[j])}
CellTables ==
  UNION {{[cols |-> cols, lines |-> lines] :
            lines \in NonEmptySeqs(CellLines(cols), MaxCellRows)} :
         cols \in CellHeaders}

ColumnText(col) ==
  col.name \o <<col.marker>> \o (IF col.nullable THEN <<"!">> ELSE <<>>)
TableText(t) ==
  HeaderText(Len(t.lines),
             Join([j \in 1..Len(t.cols) |-> ColumnText(t.cols[j])], <<",">>))
    \o Join([i \in 1..Len(t.lines) |-> Join(t.lines[i], <<",">>)], <<"\n">>)

InitCells ==
  /\ pc = "encoded"
  /\ data = Undef
  /\ opts = DEFAULT_OPTIONS
  /\ slim \in {TableText(t) : t \in CellTables}
  /\ out = NoOut
  /\ SchemaIdle /\ DecodeIdle /\ StreamIdle
SpecCells == InitCells /\ [][Decode]_vars

\* what the claim says of one cell: the entries it gives the decoded row
CellEntries(col, cell) ==
  IF Len(cell) = 0
  THEN IF col.nullable THEN <<[key |-> col.name, val |-> Null]>> ELSE <<>>
  ELSE <<[key |-> col.name,
          val |-> IF col.marker = "#" THEN Num(1) ELSE Str(cell)]>>
ExpectedRow(cols, line) ==
  Obj(Join([j \in 1..Len(cols) |-> CellEntries(cols[j], line[j])], <<>>))
ExpectedRows(t) ==
  List([i \in 1..Len(t.lines) |-> ExpectedRow(t.cols, t.lines[i])])

(***************************************************************************)
(* C24: for every table text with k columns in which every data line has   *)
(* k comma-separated cells, each decoded row has, for a column whose cell  *)
(* is empty, the key with Null if the column is nullable and no key if it  *)
(* is not, and for a column whose cell is a value, the key with that       *)
(* value; for every column position, the first included, and for lines in  *)
(* which every cell is empty.                                              *)
(***************************************************************************)
C24_TableCells ==
  pc = "decoded" =>
    \A t \in CellTables :
      TableText(t) = slim => ~out.hang /\ out.val = ExpectedRows(t)

(***************************************************************************)
(* One-column table headers: the schema is a text of up to MaxHeaderLen    *)
(* characters of a name letter, the markers # and $ and the nullable mark. *)
(* The table has an empty line and a line that is the cell 1, which show   *)
(* what decode took for the column's name (the key), for its nullable flag *)
(* (Null for the empty cell, or no key) and for its type (the Number 1 in  *)
(* a Number column, the Text "1" otherwise).  The same schema text is then *)
(* handed to parseSchema.                                                  *)
(***************************************************************************)
MaxHeaderLen == 3

HeaderAlphabet == {"a", "#", "$", "!"}
ProbeTable(schemaText) == HeaderText(2, schemaText) \o <<"\n", "1">>

InitHeader ==
  /\ pc = "encoded"
  /\ data = Undef
  /\ opts = DEFAULT_OPTIONS
  /\ schema \in Texts(HeaderAlphabet, MaxHeaderLen) \ {<<>>}
  /\ slim = ProbeTable(schema)
  /\ out = NoOut
  /\ res = NoRes
  /\ DecodeIdle /\ StreamIdle
NextHeader == Decode \/ ParseSchema
SpecHeader == InitHeader /\ [][NextHeader]_vars

\* the rows that a column of this descriptor gives for the two lines
ProbeRows(col) ==
  List(<<Obj(IF col.nullable THEN <<[key |-> col.name, val |-> Null]>> ELSE <<>>),
         Obj(<<[key |-> col.name,
                val |-> IF col.type = "#" THEN Num(1) ELSE Str(<<"1">>)]>>)>>)

(***************************************************************************)
(* C25: the decoder reads a table header's schema with the same pattern as *)
(* parseSchema: for every schema text, entries ending in several marker    *)
(* characters such as a!! or a## included, the column name, type marker    *)
(* and nullable flag that decode derives from the header |n|schema| are    *)
(* those that parseSchema(schema) returns.                                 *)
(***************************************************************************)
C25_HeaderAsParseSchema ==
  pc = "parsed" /\ res.op = "parseSchema" =>
    /\ Len(res.val) = 1
    /\ ~out.hang
    /\ out.val = ProbeRows(res.val[1])

(***************************************************************************)
(* Lists of up to MaxMixedLen elements, each a scalar, a Record, or a      *)
(* one-row table-shaped List of Records with a Number, Boolean or Text     *)
(* cell.                                                                   *)
(***************************************************************************)
MaxMixedLen == 2

MixedCells == {Num(1), Bool(TRUE), Str(<<"x">>)}
MixedRecords == {Obj(<<[key |-> <<"a">>, val |-> c]>>) : c \in MixedCells}
MixedElems ==
  {Null} \cup MixedCells \cup MixedRecords \cup {List(<<r>>) : r \in MixedRecords}
MixedValues == {List(xs) : xs \in Seqs(MixedElems, MaxMixedLen)}

InitMixed == InitWith(MixedValues, {DEFAULT_OPTIONS})
SpecMixed == InitMixed /\ [][Next]_vars

\* the lists that encode writes in mixed form under the default options:
\* not empty, not all Numbers, not all Texts, not all Records
IsMixedList(x) ==
  /\ IsArray(x)
  /\ Len(x.v) > 0
  /\ \E i \in 1..Len(x.v) : ~IsNumber(x.v[i])
  /\ \E i \in 1..Len(x.v) : ~IsString(x.v[i])
  /\ \E i \in 1..Len(x.v) : ~IsPlainObject(x.v[i])

(***************************************************************************)
(* C26: for every List encoded in mixed form @[v;v;...] whose elements are *)
(* scalars, Records, or table-shaped Lists of Records (with Number,        *)
(* Boolean or Text cells), decode(encode(l)) is deep-equal to l: a nested  *)
(* table element ends at the ; or ] that follows it and the elements after *)
(* it are still decoded.                                                   *)
(***************************************************************************)
C26_MixedRoundTrip ==
  pc = "decoded" /\ IsMixedList(data) =>
    /\ StartsWith(slim, "@")
    /\ ~out.hang
    /\ deepEqual(out.val, data)

(***************************************************************************)
(* validateSchema(records, inferSchema(records)) for the lists of records  *)
(* of SchemaData: the list is validated against the schema that was        *)
(* inferred from it.                                                       *)
(***************************************************************************)
ValidateInferred == pc = "inferred" /\ ValidateSchema
NextInferred == Encode \/ InferSchema \/ ValidateInferred
SpecInferred == InitSchema /\ [][NextInferred]_vars

(***************************************************************************)
(* C28: for every non-empty list of plain records, columns whose values    *)
(* have different kinds in different records and columns that are Null in  *)
(* every record included, validateSchema(records, inferSchema(records))    *)
(* returns {valid: true}.  Stated for the records whose keys are a and b, *)
(* which have no comma, bar or marker character.                           *)
(***************************************************************************)
C28_ValidAgainstInferred ==
  pc = "validated" /\ Len(data.v) > 0 /\ KeySet(data.v) \subseteq PairKeys =>
    res.val = [valid |-> TRUE]

(***************************************************************************)
(* Records with one field that is a List, at the top level and one Record  *)
(* deeper: the empty list, lists of records (one with a Record cell), a    *)
(* numeric list, a text list and a list of a record and a number; maxDepth *)
(* 0..MaxDepthLimit and tableThreshold 0..MaxThreshold.                    *)
(***************************************************************************)
FieldLists ==
  {List(<<>>),
   List(<<Obj(<<[key |-> <<"b">>, val |-> Num(1)]>>)>>),
   List(<<Obj(<<[key |-> <<"b">>, val |-> Num(1)]>>),
          Obj(<<[key |-> <<"b">>, val |-> Str(<<"x">>)]>>)>>),
   List(<<Obj(<<[key |-> <<"b">>,
                 val |-> Obj(<<[key |-> <<"c">>, val |-> Num(1)]>>)]>>)>>),
   List(<<Obj(<<>>)>>),
   List(<<Num(1)>>),
   List(<<Str(<<"x">>)>>),
   List(<<Obj(<<[key |-> <<"b">>, val |-> Num(1)]>>), Num(1)>>)}
ListFieldRecords ==
  {Obj(<<[key |-> <<"a">>, val |-> l]>>) : l \in FieldLists}
  \cup {Obj(<<[key |-> <<"a">>, val |-> Obj(<<[key |-> <<"a">>, val |-> l]>>)]>>) :
          l \in FieldLists}
ListFieldOptions ==
  {[maxDepth |-> d, tableThreshold |-> t] :
     d \in 0..MaxDepthLimit, t \in 0..MaxThreshold}

InitField == InitWith(ListFieldRecords, ListFieldOptions)
SpecField == InitField /\ [][Encode]_vars

\* the text of a Record each of whose fields is written as encodeValue
\* writes the field value one level deeper
RECURSIVE RecordByValue(_, _, _)
RecordByValue(obj, depth, o) ==
  IF Len(obj.v) = 0 THEN <<"{", "}">>
  ELSE <<"{">>
       \o Join([i \in 1..Len(obj.v) |->
                  LET value == obj.v[i].val
                  IN SafeKey(obj.v[i].key) \o <<":">>
                     \o (IF IsPlainObject(value) /\ depth + 1 <= o.maxDepth
                         THEN RecordByValue(value, depth + 1, o)
                         ELSE encodeValue(value, depth + 1, o))], <<",">>)
       \o <<"}">>

(***************************************************************************)
(* C29: for every Record field whose value is a List, every depth and      *)
(* every options value (maxDepth >= 0, tableThreshold >= 0), the text      *)
(* encodeObject emits for the field through its inline-table shortcut is   *)
(* the text encodeValue returns for the field value at depth + 1: an empty *)
(* list is @[] and a list beyond maxDepth is !DEEP in both.                *)
(***************************************************************************)
C29_FieldAsValue ==
  pc = "encoded" => slim = RecordByValue(data, 0, opts)

(***************************************************************************)
(* Tables whose column names are any non-empty text of up to MaxNameLen    *)
(* characters of a letter, the comma, the bar and the markers # and !,     *)
(* with one non-null scalar in each record.                                *)
(***************************************************************************)
MaxNameLen == 2
MaxNameRows == 1

NameAlphabet == {"a", ",", "|", "#", "!"}
NameKeys == Texts(NameAlphabet, MaxNameLen) \ {<<>>}
NameCells == {Num(1), Bool(TRUE), Str(<<"x">>)}
NameRecords == {Obj(<<[key |-> k, val |-> c]>>) : k \in NameKeys, c \in NameCells}
NameValues == {List(rows) : rows \in NonEmptySeqs(NameRecords, MaxNameRows)}

InitNames == InitWith(NameValues, {DEFAULT_OPTIONS})
SpecNames == InitNames /\ [][Next]_vars

\* the keys of one record
RecordKeys(row) == {row.v[j].key : j \in 1..Len(row.v)}

(***************************************************************************)
(* C30: for every non-empty list of records whose keys are arbitrary       *)
(* non-empty Text (keys that contain , or | and keys that end with one of  *)
(* the marker characters # ? @ ~ $ ! included) and whose values are        *)
(* non-null scalars, every record of decode(encode(rows)) has exactly the  *)
(* key set of the corresponding input record.                              *)
(***************************************************************************)
C30_ColumnNamesSurvive ==
  pc = "decoded" =>
    /\ ~out.hang
    /\ IsArray(out.val)
    /\ Len(out.val.v) = Len(data.v)
    /\ \A i \in 1..Len(data.v) :
         /\ IsPlainObject(out.val.v[i])
         /\ RecordKeys(out.val.v[i]) = RecordKeys(data.v[i])

====
